---- MODULE Spec2Model ----
(***************************************************************************)
(* ToyLang (src/use_case.py): the tree-walking evaluator and its parallel  *)
(* blocks.                                                                 *)
(*                                                                         *)
(* Python objects are tagged tuples: <<"int", n>>, <<"bool", b>>,          *)
(* <<"str", s>>, <<"none">>, <<"list", elems>>, and the Python pair        *)
(* (val, is_const) that Declare stores is <<"tuple", val, is_const>>.  A   *)
(* dict is the sequence of its <<key, object>> items in insertion order.   *)
(* The function an arrow_func node makes is <<"closure", params, body,     *)
(* env>>, env naming the dict it was made in: <<"frame", k>> while the     *)
(* call of depth k that owns the dict is running, <<"frozen", dict>> from  *)
(* then on.  The dict that "new" makes is <<"instance", class_name>>, its  *)
(* method functions are <<"method", class_name, method_name>>.  A list is  *)
(* held by value: two names for one list object are not modelled.  AST     *)
(* nodes are the tuples the parser builds, tag first.                      *)
(*                                                                         *)
(* Interpreter.evaluate is the recursive operator Evaluate.  It threads a  *)
(* record st through the walk: st.loc is the dict passed as local_symbols, *)
(* st.glob is self.symbol_table, st.out what print() wrote, st.spawned the *)
(* threads started, st.frame the depth of the call the dict belongs to,    *)
(* st.stack the dicts of the calls around it, st.ctx self.current_context; *)
(* st.val and st.sig carry the result: sig "ok" with the value returned,   *)
(* sig "return" for a ReturnValue in flight, sig "error" for any other     *)
(* exception in flight.                                                    *)
(*                                                                         *)
(* Threads interleave between the statements of their blocks and between   *)
(* the steps of execute_block (copy, statements, merge check, merge        *)
(* write); the evaluation of one statement of a block is one step.         *)
(***************************************************************************)
EXTENDS Integers, Sequences, FiniteSets, TLC

VARIABLES symbol_table, locals, threads, last

vars == <<symbol_table, locals, threads, last>>

(* ------------------------------ bounds -------------------------------- *)

MaxUnits == 2

MaxMainSteps == 2

MaxBlockLen == 2

MaxCount == 2

MaxLen == 2

MaxProbes == 1

MaxOperand == 2

MaxText == 4

MaxBreaks == 1

(* --------------------------- Python objects --------------------------- *)

None == <<"none">>

IntV(n) == <<"int", n>>

BoolV(b) == <<"bool", b>>

StrV(s) == <<"str", s>>

ListV(elems) == <<"list", elems>>

Closure(params, body, env) == <<"closure", params, body, env>>

Instance(class_name) == <<"instance", class_name>>

Method(class_name, method_name) == <<"method", class_name, method_name>>

(* callable(obj)                                                          *)
Callable(obj) == obj[1] \in {"closure", "method"}

MkTuple(val, is_const) == <<"tuple", val, is_const>>

IsTuple(obj) == obj[1] = "tuple"

IsNumber(obj) == obj[1] \in {"int", "bool"}

NumOf(obj) == IF obj[1] = "bool" THEN (IF obj[2] THEN 1 ELSE 0) ELSE obj[2]

(* isinstance(obj, (int, float))                                          *)
IsReal(obj) == obj[1] \in {"int", "bool", "float"}

(* A float is held as the fraction it stands for, <<"float", n, d>> in    *)
(* lowest terms with d > 0: the rounding of Python floats is not          *)
(* modelled.                                                              *)
Numer(obj) == IF obj[1] = "float" THEN obj[2] ELSE NumOf(obj)

Denom(obj) == IF obj[1] = "float" THEN obj[3] ELSE 1

Abs(n) == IF n < 0 THEN 0 - n ELSE n

RECURSIVE Gcd(_, _)
Gcd(a, b) == IF b = 0 THEN a ELSE Gcd(b, a % b)

FloatV(n, d) ==
    LET g == Gcd(Abs(n), Abs(d))
        sign == IF d < 0 THEN 0 - 1 ELSE 1
    IN <<"float", (sign * n) \div g, (sign * d) \div g>>

Truthy(obj) ==
    CASE obj[1] = "none" -> FALSE
      [] obj[1] = "bool" -> obj[2]
      [] obj[1] = "int" -> obj[2] # 0
      [] obj[1] = "float" -> obj[2] # 0
      [] obj[1] = "list" -> Len(obj[2]) > 0
      [] obj[1] = "str" -> obj[2] # ""
      [] OTHER -> TRUE

PyEq(a, b) ==
    IF IsReal(a) /\ IsReal(b) THEN Numer(a) * Denom(b) = Numer(b) * Denom(a) ELSE a = b

(* str(obj) where + joins a string with an object that is no number: the  *)
(* text of a list, a function or an instance is not modelled, it is kept  *)
(* as the kind of the object.                                             *)
PyStr(obj) ==
    CASE obj[1] = "str" -> obj[2]
      [] obj[1] = "none" -> "None"
      [] OTHER -> "<" \o obj[1] \o ">"

(* ------------------------------- dicts -------------------------------- *)

EmptyDict == <<>>

Has(d, k) == \E i \in 1..Len(d) : d[i][1] = k

Get(d, k) == d[CHOOSE i \in 1..Len(d) : d[i][1] = k][2]

Put(d, k, obj) ==
    IF Has(d, k)
    THEN [i \in 1..Len(d) |-> IF d[i][1] = k THEN <<k, obj>> ELSE d[i]]
    ELSE Append(d, <<k, obj>>)

Del(d, k) == SelectSeq(d, LAMBDA item : item[1] # k)

Keys(d) == {d[i][1] : i \in 1..Len(d)}

(* The keys whose entry differs between dict d1 and dict d2.               *)
Changed(d1, d2) ==
    {k \in Keys(d1) \cup Keys(d2) :
        \/ Has(d1, k) # Has(d2, k)
        \/ Has(d1, k) /\ Has(d2, k) /\ Get(d1, k) # Get(d2, k)}

Zip(params, args) == [i \in 1..Len(params) |-> <<params[i], args[i]>>]

(* d.update(other)                                                        *)
RECURSIVE Update(_, _, _)
Update(d, other, i) ==
    IF i > Len(other) THEN d
    ELSE Update(Put(d, other[i][1], other[i][2]), other, i + 1)

(* What a Var read of name k finds in dict d: the value of a (val, const) *)
(* pair, or the object itself.                                            *)
Unwrap(obj) == IF IsTuple(obj) THEN obj[2] ELSE obj

(* --------------------------- the parsed program ----------------------- *)

P1 == <<"print", <<"number", 1>>, 1>>

P2 == <<"print", <<"number", 2>>, 1>>

R5 == <<"return", <<"number", 5>>>>

R6 == <<"return", <<"number", 6>>>>

ForInit == <<"assign", "i", <<"number", 0>>>>

ForCond == <<"<", <<"var", "i">>, <<"number", 2>>>>

ForUpdate == <<"assign", "i", <<"+", <<"var", "i">>, <<"number", 1>>>>>>

(* What Parser.function_def has put into function_table for               *)
(*  def fwhile()  { while (true) { print(1); return 5; } print(2); return 6; } *)
(*  def fif()     { if (true) { print(1); return 5; } print(2); return 6; }    *)
(*  def frepeat() { repeat 2 times { print(1); return 5; } print(2); return 6; } *)
(*  def ffor()    { for (i = 0; i < 2; i = i + 1) { print(1); return 5; }      *)
(*                  print(2); return 6; }                                      *)
(*  def flast()   { while (true) { print(1); return 5; } }                     *)
(*  def setx()    { x = 42; }                                                  *)
(*  def getx()    { return x; }                                                *)
(*  def lety()    { let y = 7; }                                               *)
(*  def spawn(p)  { parallel { p; } }                                          *)
(* and what Parser.class_def has put there for                            *)
(*  class P { get() { return 7; } two(a, b) { return a + b; } }           *)
function_table ==
    [f \in {"fwhile", "fif", "frepeat", "ffor", "flast", "setx", "getx", "lety",
            "spawn", "__class_P"} |->
        CASE f = "fwhile" ->
               <<"func_def", f, <<>>,
                 << <<"while", <<"boolean", TRUE>>, <<P1, R5>>>>, P2, R6 >> >>
          [] f = "fif" ->
               <<"func_def", f, <<>>,
                 << <<"if", <<"boolean", TRUE>>, <<P1, R5>>, None>>, P2, R6 >> >>
          [] f = "frepeat" ->
               <<"func_def", f, <<>>,
                 << <<"repeat", <<"number", 2>>, <<P1, R5>>>>, P2, R6 >> >>
          [] f = "ffor" ->
               <<"func_def", f, <<>>,
                 << <<"for", ForInit, ForCond, ForUpdate, <<P1, R5>>>>, P2, R6 >> >>
          [] f = "flast" ->
               <<"func_def", f, <<>>,
                 << <<"while", <<"boolean", TRUE>>, <<P1, R5>>>> >> >>
          [] f = "setx" ->
               <<"func_def", f, <<>>,
                 << <<"assign", "x", <<"number", 42>>>> >> >>
          [] f = "getx" ->
               <<"func_def", f, <<>>, << <<"return", <<"var", "x">>>> >> >>
          [] f = "lety" ->
               <<"func_def", f, <<>>, << <<"declare", "y", <<"number", 7>>, FALSE>> >> >>
          [] f = "spawn" ->
               <<"func_def", f, <<"p">>,
                 << <<"parallel", << <<"var", "p">> >> >> >> >>
          [] OTHER ->
               <<"class_def", "P",
                 << <<"method", "get", <<>>, << <<"return", <<"number", 7>>>> >> >>,
                    <<"method", "two", <<"a", "b">>,
                      << <<"return", <<"+", <<"var", "a">>, <<"var", "b">>>>>> >> >> >> >>]

(* ------------------------------ evaluate ------------------------------ *)

Ok(st, val) == [st EXCEPT !.val = val, !.sig = "ok"]

Raise(st, kind) == [st EXCEPT !.val = <<"exc", kind>>, !.sig = "error"]

RaiseReturn(st, val) == [st EXCEPT !.val = val, !.sig = "return"]

(* The dict a thread started inside a call refers to is that call's       *)
(* func_locals; once the call is over nothing writes it any more.         *)
Freeze(spawned, frame, dict) ==
    [i \in 1..Len(spawned) |->
        IF spawned[i].ref = <<"frame", frame>>
        THEN [spawned[i] EXCEPT !.ref = <<"frozen", dict>>]
        ELSE spawned[i]]

(* A function made inside a call that is now over keeps the call's dict,  *)
(* which nothing writes any more.                                         *)
RECURSIVE FreezeObj(_, _, _)
FreezeObj(obj, frame, dict) ==
    CASE obj[1] = "closure" ->
           IF obj[4] = <<"frame", frame>>
           THEN Closure(obj[2], obj[3], <<"frozen", dict>>)
           ELSE IF obj[4][1] = "frozen"
           THEN Closure(obj[2], obj[3],
                        <<"frozen", [i \in 1..Len(obj[4][2]) |->
                                       <<obj[4][2][i][1],
                                         FreezeObj(obj[4][2][i][2], frame, dict)>>]>>)
           ELSE obj
      [] obj[1] = "list" ->
           ListV([i \in 1..Len(obj[2]) |-> FreezeObj(obj[2][i], frame, dict)])
      [] obj[1] = "tuple" -> MkTuple(FreezeObj(obj[2], frame, dict), obj[3])
      [] OTHER -> obj

(* Back with the entries of the call's dict written into the caller's.    *)
BackWritingCaller(r, a) ==
    [r EXCEPT !.loc = Update(a.loc, r.loc, 1),
              !.frame = a.frame,
              !.stack = a.stack,
              !.val = FreezeObj(r.val, r.frame, r.loc),
              !.glob = [i \in 1..Len(r.glob) |->
                          <<r.glob[i][1], FreezeObj(r.glob[i][2], r.frame, r.loc)>>],
              !.spawned = Freeze(r.spawned, r.frame, r.loc)]

(* The state a call that ran in dict r.loc at depth r.frame hands back to *)
(* its caller, whose state before the call was a.                         *)
Back(r, a) ==
    [r EXCEPT !.loc = a.loc,
              !.frame = a.frame,
              !.stack = a.stack,
              !.val = FreezeObj(r.val, r.frame, r.loc),
              !.glob = [i \in 1..Len(r.glob) |->
                          <<r.glob[i][1], FreezeObj(r.glob[i][2], r.frame, r.loc)>>],
              !.spawned = Freeze(r.spawned, r.frame, r.loc)]

(* The state in which a call made from state a runs in the new dict.      *)
Enter(a, dict) ==
    [a EXCEPT !.loc = dict,
              !.frame = a.frame + 1,
              !.stack = Append(a.stack, a.loc),
              !.val = None]

BinaryOps == {"+", "-", "*", "/", "==", "!=", ">", "<", ">=", "<=", "and", "or"}

(* left + right, left - right, ... of two numbers: an int unless one of   *)
(* them is a float; left / right is a float.                              *)
Arith(ntype, left, right, st) ==
    LET ln == Numer(left)
        ld == Denom(left)
        rn == Numer(right)
        rd == Denom(right)
        float == left[1] = "float" \/ right[1] = "float"
        Made(n, d) == IF float THEN FloatV(n, d) ELSE IntV(n)
    IN CASE ntype = "+" -> Ok(st, Made(ln * rd + rn * ld, ld * rd))
         [] ntype = "-" -> Ok(st, Made(ln * rd - rn * ld, ld * rd))
         [] ntype = "*" -> Ok(st, Made(ln * rn, ld * rd))
         [] ntype = "/" -> IF rn = 0 THEN Raise(st, "ZeroDivisionError")
                           ELSE Ok(st, FloatV(ln * rd, ld * rn))
         [] ntype = ">" -> Ok(st, BoolV(ln * rd > rn * ld))
         [] ntype = "<" -> Ok(st, BoolV(ln * rd < rn * ld))
         [] ntype = ">=" -> Ok(st, BoolV(ln * rd >= rn * ld))
         [] OTHER -> Ok(st, BoolV(ln * rd <= rn * ld))

(* ApplyBinary with + joining a string and a number as texts.             *)
ApplyBinaryJoining(ntype, left, right, st) ==
    CASE ntype = "and" -> Ok(st, IF Truthy(left) THEN right ELSE left)
      [] ntype = "or" -> Ok(st, IF Truthy(left) THEN left ELSE right)
      [] ntype = "==" -> Ok(st, BoolV(PyEq(left, right)))
      [] ntype = "!=" -> Ok(st, BoolV(~PyEq(left, right)))
      [] ntype = "+" /\ (left[1] = "str" \/ right[1] = "str") ->
           Ok(st, StrV(PyStr(left) \o PyStr(right)))
      [] ntype = "+" /\ left[1] = "list" /\ right[1] = "list" ->
           Ok(st, ListV(left[2] \o right[2]))
      [] OTHER ->
           IF IsReal(left) /\ IsReal(right) THEN Arith(ntype, left, right, st)
           ELSE Raise(st, "TypeError")

ApplyBinary(ntype, left, right, st) ==
    CASE ntype = "and" -> Ok(st, IF Truthy(left) THEN right ELSE left)
      [] ntype = "or" -> Ok(st, IF Truthy(left) THEN left ELSE right)
      [] ntype = "==" -> Ok(st, BoolV(PyEq(left, right)))
      [] ntype = "!=" -> Ok(st, BoolV(~PyEq(left, right)))
      [] ntype = "+" /\ left[1] = "str" /\ IsReal(right) -> Raise(st, "TypeError")
      [] ntype = "+" /\ right[1] = "str" /\ IsReal(left) -> Raise(st, "TypeError")
      [] ntype = "+" /\ (left[1] = "str" \/ right[1] = "str") ->
           Ok(st, StrV(PyStr(left) \o PyStr(right)))
      [] ntype = "+" /\ left[1] = "list" /\ right[1] = "list" ->
           Ok(st, ListV(left[2] \o right[2]))
      [] OTHER ->
           IF IsReal(left) /\ IsReal(right) THEN Arith(ntype, left, right, st)
           ELSE Raise(st, "TypeError")

RECURSIVE Evaluate(_, _), EvalBody(_, _, _), EvalArgs(_, _, _, _)
RECURSIVE EvalWhile(_, _), EvalFor(_, _, _), EvalRepeat(_, _, _)

(* result = None; for stmt in body: result = self.evaluate(stmt, ...)     *)
EvalBody(body, i, st) ==
    IF i > Len(body) THEN st
    ELSE LET r == Evaluate(body[i], st)
         IN IF r.sig # "ok" THEN r ELSE EvalBody(body, i + 1, r)

(* args = [self.evaluate(arg, local_symbols) for arg in node[2]]          *)
EvalArgs(arg_nodes, i, args, st) ==
    IF i > Len(arg_nodes) THEN Ok(st, ListV(args))
    ELSE LET r == Evaluate(arg_nodes[i], st)
         IN IF r.sig # "ok" THEN r
            ELSE EvalArgs(arg_nodes, i + 1, Append(args, r.val), r)

(* EvalAssign with the write to self.symbol_table left out.               *)
EvalAssignLocalOnly(node, st) ==
    LET var == node[2]
        r == Evaluate(node[3], st)
    IN IF r.sig # "ok" THEN r
       ELSE IF Has(r.glob, var) /\ IsTuple(Get(r.glob, var)) /\ Get(r.glob, var)[3]
       THEN Raise(r, "ConstViolation")
       ELSE IF r.val = None
       THEN Ok([r EXCEPT !.loc = Del(@, var), !.glob = Del(@, var)], None)
       ELSE Ok([r EXCEPT !.loc = Put(@, var, r.val)], r.val)

(* EvalAssign with None stored under the name instead of the name removed. *)
EvalAssignStoresNone(node, st) ==
    LET var == node[2]
        r == Evaluate(node[3], st)
    IN IF r.sig # "ok" THEN r
       ELSE IF Has(r.glob, var) /\ IsTuple(Get(r.glob, var)) /\ Get(r.glob, var)[3]
       THEN Raise(r, "ConstViolation")
       ELSE Ok([r EXCEPT !.loc = Put(@, var, r.val), !.glob = Put(@, var, r.val)],
               r.val)

EvalAssign(node, st) ==
    LET var == node[2]
        r == Evaluate(node[3], st)
    IN IF r.sig # "ok" THEN r
       ELSE IF Has(r.glob, var) /\ IsTuple(Get(r.glob, var)) /\ Get(r.glob, var)[3]
       THEN Raise(r, "ConstViolation")
       ELSE IF r.val = None
       THEN Ok([r EXCEPT !.loc = Del(@, var), !.glob = Del(@, var)], None)
       ELSE Ok([r EXCEPT !.loc = Put(@, var, r.val), !.glob = Put(@, var, r.val)],
               r.val)

(* EvalDeclare with the write to self.symbol_table left out.              *)
EvalDeclareLocalOnly(node, st) ==
    LET var_name == node[2]
        is_const == node[4]
    IN IF Has(st.loc, var_name) \/ Has(st.glob, var_name)
       THEN Raise(st, "Redeclaration")
       ELSE LET r == Evaluate(node[3], st)
            IN IF r.sig # "ok" THEN r
               ELSE Ok([r EXCEPT !.loc = Put(@, var_name, MkTuple(r.val, is_const))],
                       r.val)

(* EvalDeclare with the name looked up in local_symbols only.             *)
EvalDeclareLocalCheck(node, st) ==
    LET var_name == node[2]
        is_const == node[4]
    IN IF Has(st.loc, var_name)
       THEN Raise(st, "Redeclaration")
       ELSE LET r == Evaluate(node[3], st)
            IN IF r.sig # "ok" THEN r
               ELSE Ok([r EXCEPT !.loc = Put(@, var_name, MkTuple(r.val, is_const)),
                                 !.glob = Put(@, var_name, r.val)],
                       r.val)

(* EvalDeclare without the test for a name already declared.              *)
EvalDeclareRebinding(node, st) ==
    LET var_name == node[2]
        is_const == node[4]
    IN LET r == Evaluate(node[3], st)
       IN IF r.sig # "ok" THEN r
          ELSE Ok([r EXCEPT !.loc = Put(@, var_name, MkTuple(r.val, is_const)),
                            !.glob = Put(@, var_name, r.val)],
                  r.val)

EvalDeclare(node, st) ==
    LET var_name == node[2]
        is_const == node[4]
    IN IF Has(st.loc, var_name) \/ Has(st.glob, var_name)
       THEN Raise(st, "Redeclaration")
       ELSE LET r == Evaluate(node[3], st)
            IN IF r.sig # "ok" THEN r
               ELSE Ok([r EXCEPT !.loc = Put(@, var_name, MkTuple(r.val, is_const)),
                                 !.glob = Put(@, var_name, r.val)],
                       r.val)

(* EvalVar with the global dict looked up before the local one.           *)
EvalVarGlobalFirst(node, st) ==
    LET var == node[2]
    IN IF Has(st.glob, var) THEN Ok(st, Unwrap(Get(st.glob, var)))
       ELSE IF Has(st.loc, var) THEN Ok(st, Unwrap(Get(st.loc, var)))
       ELSE IF st.ctx = "array_access" THEN Raise(st, "UndefinedObject")
       ELSE Raise(st, "UndefinedVariable")

EvalVar(node, st) ==
    LET var == node[2]
    IN IF Has(st.loc, var) THEN Ok(st, Unwrap(Get(st.loc, var)))
       ELSE IF Has(st.glob, var) THEN Ok(st, Unwrap(Get(st.glob, var)))
       ELSE IF st.ctx = "array_access" THEN Raise(st, "UndefinedObject")
       ELSE Raise(st, "UndefinedVariable")

(* EvalBinary with the right operand of and / or left unevaluated when    *)
(* the left operand decides the result.                                   *)
EvalBinaryShortCircuit(node, st) ==
    LET l == Evaluate(node[2], st)
    IN IF l.sig # "ok" THEN l
       ELSE IF node[1] = "and" /\ ~Truthy(l.val) THEN l
       ELSE IF node[1] = "or" /\ Truthy(l.val) THEN l
       ELSE LET r == Evaluate(node[3], l)
            IN IF r.sig # "ok" THEN r
               ELSE ApplyBinary(node[1], l.val, r.val, r)

EvalBinary(node, st) ==
    LET l == Evaluate(node[2], st)
    IN IF l.sig # "ok" THEN l
       ELSE LET r == Evaluate(node[3], l)
            IN IF r.sig # "ok" THEN r
               ELSE ApplyBinary(node[1], l.val, r.val, r)

(* A statement list run under "try: ... except ReturnValue as rv:         *)
(* return rv.value": the ReturnValue ends here, as the node's value.      *)
EvalCatching(body, st) ==
    LET r == EvalBody(body, 1, [st EXCEPT !.val = None])
    IN IF r.sig = "return" THEN Ok(r, r.val) ELSE r

EvalIf(node, st) ==
    LET cond == Evaluate(node[2], st)
    IN IF cond.sig # "ok" THEN cond
       ELSE IF Truthy(cond.val) THEN EvalCatching(node[3], cond)
       ELSE IF node[4] # None THEN EvalCatching(node[4], cond)
       ELSE Ok(cond, None)

EvalWhile(node, st) ==
    LET cond == Evaluate(node[2], st)
    IN IF cond.sig # "ok" THEN cond
       ELSE IF ~Truthy(cond.val) THEN Ok(cond, None)
       ELSE LET r == EvalBody(node[3], 1, cond)
            IN IF r.sig = "return" THEN Ok(r, r.val)
               ELSE IF r.sig # "ok" THEN r
               ELSE EvalWhile(node, r)

EvalFor(node, outputs, st) ==
    LET cond == Evaluate(node[3], st)
    IN IF cond.sig # "ok" THEN cond
       ELSE IF ~Truthy(cond.val) THEN Ok(cond, ListV(outputs))
       ELSE LET r == EvalBody(node[5], 1, [cond EXCEPT !.val = None])
            IN IF r.sig = "error" THEN r
               ELSE LET upd == Evaluate(node[4], Ok(r, r.val))
                    IN IF upd.sig # "ok" THEN upd
                       ELSE EvalFor(node, Append(outputs, r.val), upd)

(* EvalRepeat with the last round of the loop left out.                   *)
EvalRepeatOneShort(node, left, st) ==
    IF left <= 1 THEN Ok(st, None)
    ELSE LET r == EvalBody(node[3], 1, st)
         IN IF r.sig = "return" THEN Ok(r, r.val)
            ELSE IF r.sig # "ok" THEN r
            ELSE EvalRepeat(node, left - 1, r)

(* EvalRepeat with the count expression evaluated again after every       *)
(* round: the loop ends as soon as the rounds run reach the count.        *)
EvalRepeatRecounting(node, left, st) ==
    IF left = 0 THEN Ok(st, None)
    ELSE LET r == EvalBody(node[3], 1, st)
             count == Evaluate(node[2], r)
             Rest(n) == IF n < left - 1 THEN n ELSE left - 1
         IN IF r.sig = "return" THEN Ok(r, r.val)
            ELSE IF r.sig # "ok" THEN r
            ELSE IF count.sig # "ok" \/ ~IsNumber(count.val) THEN EvalRepeat(node, 0, r)
            ELSE EvalRepeat(node, Rest(NumOf(count.val)), r)

EvalRepeat(node, left, st) ==
    IF left = 0 THEN Ok(st, None)
    ELSE LET r == EvalBody(node[3], 1, st)
         IN IF r.sig = "return" THEN Ok(r, r.val)
            ELSE IF r.sig # "ok" THEN r
            ELSE EvalRepeat(node, left - 1, r)

(* finally: self.current_context = 'variable'                            *)
Finally(st) == [st EXCEPT !.ctx = "variable"]

EvalArrayAssign(node, st) ==
    LET array_name == node[2]
        index == Evaluate(node[3], st)
    IN IF index.sig # "ok" THEN index
       ELSE LET value == Evaluate(node[4], index)
            IN IF value.sig # "ok" THEN value
               ELSE IF ~Has(value.loc, array_name) /\ ~Has(value.glob, array_name)
               THEN Finally(Raise(value, "UndefinedObject"))
               ELSE LET found == IF Has(value.loc, array_name)
                                 THEN Get(value.loc, array_name)
                                 ELSE Get(value.glob, array_name)
                        array == Unwrap(found)
                        i == NumOf(index.val)
                        Store(d) ==
                            IF ~Has(d, array_name) THEN d
                            ELSE LET changed == ListV([array[2] EXCEPT ![i + 1] = value.val])
                                 IN Put(d, array_name,
                                        IF IsTuple(Get(d, array_name))
                                        THEN MkTuple(changed, Get(d, array_name)[3])
                                        ELSE changed)
                    IN IF IsTuple(found) /\ found[3]
                       THEN Finally(Raise(value, "ConstViolation"))
                       ELSE IF array[1] # "list" THEN Finally(Raise(value, "TypeError"))
                       ELSE IF ~IsNumber(index.val) THEN Finally(Raise(value, "TypeError"))
                       ELSE IF i < 0 \/ i >= Len(array[2])
                       THEN Finally(Raise(value, "RangeError"))
                       ELSE Finally(Ok([value EXCEPT !.loc = Store(@), !.glob = Store(@)],
                                       value.val))

EvalArrayAccess(node, st) ==
    LET array == Evaluate(node[2], [st EXCEPT !.ctx = "array_access"])
    IN IF array.sig # "ok" THEN Finally(array)
       ELSE LET index == Evaluate(node[3], array)
                i == NumOf(index.val)
            IN IF index.sig # "ok" THEN Finally(index)
               ELSE IF array.val[1] # "list" THEN Finally(Raise(index, "TypeError"))
               ELSE IF ~IsNumber(index.val) THEN Finally(Raise(index, "TypeError"))
               ELSE IF i < 0 \/ i >= Len(array.val[2])
               THEN Finally(Raise(index, "RangeError"))
               ELSE Finally(Ok(index, array.val[2][i + 1]))

EvalArrowFunc(node, st) == Ok(st, Closure(node[2], node[3], <<"frame", st.frame>>))

(* The methods of class_def, the entry of function_table for the class.   *)
MethodsOf(class_name) == function_table["__class_" \o class_name][3]

HasMethod(class_name, method_name) ==
    \E i \in 1..Len(MethodsOf(class_name)) : MethodsOf(class_name)[i][2] = method_name

MethodDef(class_name, method_name) ==
    MethodsOf(class_name)[CHOOSE i \in 1..Len(MethodsOf(class_name)) :
                             MethodsOf(class_name)[i][2] = method_name]

(* The dict a closure was made in, as it is when the closure is called.   *)
DefiningDict(f, a) ==
    CASE f[4][1] = "frozen" -> f[4][2]
      [] f[4][2] = a.frame -> a.loc
      [] OTHER -> a.stack[f[4][2] + 1]

(* func_env = dict(zip(params, args)); func_env.update(local_symbols)     *)
FuncEnv(f, args, a) == Update(Zip(f[2], args), DefiningDict(f, a), 1)

arrow_function(f, args, a) ==
    IF Len(args) # Len(f[2]) THEN Raise(a, "ArityMismatch")
    ELSE Back(Evaluate(f[3], Enter(a, FuncEnv(f, args, a))), a)

method_func(f, args, a) ==
    LET method == MethodDef(f[2], f[3])
        method_params == method[3]
        method_body == method[4]
    IN IF Len(args) # Len(method_params) THEN Raise(a, "ArityMismatch")
       ELSE LET method_env == Put(Zip(method_params, args), "this", Instance(f[2]))
                r == EvalBody(method_body, 1, Enter(a, method_env))
            IN IF r.sig = "return" THEN Ok(Back(r, a), Back(r, a).val) ELSE Back(r, a)

(* calling the callable object f                                           *)
CallValue(f, args, a) ==
    IF f[1] = "closure" THEN arrow_function(f, args, a) ELSE method_func(f, args, a)

EvalNew(node, st) ==
    LET class_name == node[2]
        a == EvalArgs(node[3], 1, <<>>, st)
    IN IF a.sig # "ok" THEN a
       ELSE IF ("__class_" \o class_name) \notin DOMAIN function_table
       THEN Raise(a, "UndefinedClass")
       ELSE Ok(a, Instance(class_name))

EvalMethodCall(node, st) ==
    LET obj == Evaluate(node[2], st)
        method_name == node[3]
    IN IF obj.sig # "ok" THEN obj
       ELSE LET a == EvalArgs(node[4], 1, <<>>, obj)
            IN IF a.sig # "ok" THEN a
               ELSE IF obj.val[1] # "instance" THEN Raise(a, "MethodNotFound")
               ELSE IF method_name = "__class__" THEN Raise(a, "NotAMethod")
               ELSE IF ~HasMethod(obj.val[2], method_name) THEN Raise(a, "MethodNotFound")
               ELSE CallValue(Method(obj.val[2], method_name), a.val[2], a)

EvalFieldAccess(node, st) ==
    LET obj == Evaluate(node[2], st)
        field == node[3]
    IN IF obj.sig # "ok" THEN obj
       ELSE IF obj.val[1] # "instance" THEN Raise(obj, "TypeError")
       ELSE IF field = "__class__" THEN Ok(obj, StrV(obj.val[2]))
       ELSE IF HasMethod(obj.val[2], field) THEN Ok(obj, Method(obj.val[2], field))
       ELSE Raise(obj, "FieldNotFound")

EvalFuncCall(node, st) ==
    LET func_name == node[2]
        a == EvalArgs(node[3], 1, <<>>, st)
    IN IF a.sig # "ok" THEN a
       ELSE LET args == a.val[2]
            IN IF Has(a.loc, func_name) /\ Callable(Get(a.loc, func_name))
               THEN CallValue(Get(a.loc, func_name), args, a)
               ELSE IF Has(a.glob, func_name) /\ Callable(Get(a.glob, func_name))
               THEN CallValue(Get(a.glob, func_name), args, a)
               ELSE IF func_name \in DOMAIN function_table
               THEN LET func_def == function_table[func_name]
                        params == func_def[3]
                        body == func_def[4]
                    IN IF Len(args) # Len(params) THEN Raise(a, "ArityMismatch")
                       ELSE LET r == EvalBody(body, 1, Enter(a, Zip(params, args)))
                            IN IF r.sig = "return" THEN Ok(Back(r, a), Back(r, a).val)
                               ELSE Back(r, a)
               ELSE IF func_name = "sleep"
               THEN IF Len(args) # 1 THEN Raise(a, "ArityMismatch")
                    ELSE IF ~IsNumber(args[1]) THEN Raise(a, "TypeError")
                    ELSE Ok(a, None)
               ELSE IF func_name = "delete"
               THEN IF Len(args) # 1 THEN Raise(a, "ArityMismatch")
                    ELSE IF node[3][1][1] # "var" THEN Raise(a, "TypeError")
                    ELSE LET var_name == node[3][1][2]
                         IN Ok([a EXCEPT !.loc = Del(@, var_name),
                                         !.glob = Del(@, var_name)], None)
               ELSE IF ("__class_" \o func_name) \in DOMAIN function_table
               THEN Raise(a, "ConstructorNeedsNew")
               ELSE Raise(a, "UndefinedFunction")

EvalParallel(node, st) ==
    Ok([st EXCEPT !.spawned = Append(@, [body |-> node[2], seen |-> st.loc,
                                        ref |-> <<"frame", st.frame>>])],
       None)

Evaluate(node, st) ==
    LET ntype == node[1]
    IN CASE ntype = "program" -> EvalBody(node[2], 1, [st EXCEPT !.val = None])
         [] ntype = "assign" -> EvalAssign(node, st)
         [] ntype = "declare" -> EvalDeclare(node, st)
         [] ntype = "number" -> Ok(st, IntV(node[2]))
         [] ntype = "boolean" -> Ok(st, BoolV(node[2]))
         [] ntype = "string" -> Ok(st, StrV(node[2]))
         [] ntype = "null" -> Ok(st, None)
         [] ntype = "var" -> EvalVar(node, st)
         [] ntype \in BinaryOps -> EvalBinary(node, st)
         [] ntype = "not" ->
              LET r == Evaluate(node[2], st)
              IN IF r.sig # "ok" THEN r ELSE Ok(r, BoolV(~Truthy(r.val)))
         [] ntype = "class_def" -> Ok(st, None)
         [] ntype = "new" -> EvalNew(node, st)
         [] ntype = "method_call" -> EvalMethodCall(node, st)
         [] ntype = "func_def" -> Ok(st, None)
         [] ntype = "if" -> EvalIf(node, st)
         [] ntype = "while" -> EvalWhile(node, st)
         [] ntype = "for" ->
              LET init == Evaluate(node[2], st)
              IN IF init.sig # "ok" THEN init ELSE EvalFor(node, <<>>, init)
         [] ntype = "print" ->
              LET r == Evaluate(node[2], st)
              IN IF r.sig # "ok" THEN r
                 ELSE Ok([r EXCEPT !.out = Append(@, r.val)], r.val)
         [] ntype = "return" ->
              LET r == Evaluate(node[2], st)
              IN IF r.sig # "ok" THEN r ELSE RaiseReturn(r, r.val)
         [] ntype = "field_access" -> EvalFieldAccess(node, st)
         [] ntype = "arrow_func" -> EvalArrowFunc(node, st)
         [] ntype = "array" -> EvalArgs(node[2], 1, <<>>, st)
         [] ntype = "array_assign" -> EvalArrayAssign(node, st)
         [] ntype = "array_access" -> EvalArrayAccess(node, st)
         [] ntype = "func_call" -> EvalFuncCall(node, st)
         [] ntype = "parallel" -> EvalParallel(node, st)
         [] ntype = "repeat" ->
              LET count == Evaluate(node[2], st)
              IN IF count.sig # "ok" THEN count
                 ELSE IF ~IsNumber(count.val) THEN Raise(count, "TypeError")
                 ELSE IF NumOf(count.val) < 0 THEN Raise(count, "RangeError")
                 ELSE EvalRepeat(node, NumOf(count.val), count)
         [] OTHER -> Raise(st, "UnknownNode")

(* ------------------------------- lexer -------------------------------- *)

(* The text of a program is the sequence of its lexemes: the maximal runs *)
(* of characters that Lexer.get_next_token takes in one call (a word, a   *)
(* numeral, a quoted string, an operator), white space left out.          *)

Reserved ==
    {<<"def", "DEF">>, <<"return", "RETURN">>, <<"if", "IF">>, <<"else", "ELSE">>,
     <<"while", "WHILE">>, <<"for", "FOR">>, <<"print", "PRINT">>, <<"input", "INPUT">>,
     <<"parseInt", "PARSEINT">>, <<"parallel", "PARALLEL">>, <<"repeat", "REPEAT">>,
     <<"times", "TIMES">>, <<"and", "AND">>, <<"or", "OR">>, <<"not", "NOT">>,
     <<"struct", "STRUCT">>, <<"true", "BOOLEAN">>, <<"false", "BOOLEAN">>,
     <<"class", "CLASS">>, <<"new", "NEW">>, <<"let", "LET">>, <<"const", "CONST">>,
     <<"null", "NULL">>, <<"this", "THIS">>}

Operators ==
    {<<"==", "EQ">>, <<"!=", "NE">>, <<">=", "GE">>, <<"<=", "LE">>, <<"->", "ARROW">>,
     <<"=>", "ARROW">>, <<"+", "PLUS">>, <<"-", "MINUS">>, <<"*", "TIMES">>,
     <<"/", "DIVIDE">>, <<"=", "EQUALS">>, <<"(", "LPAREN">>, <<")", "RPAREN">>,
     <<"{", "LBRACE">>, <<"}", "RBRACE">>, <<"[", "LBRACKET">>, <<"]", "RBRACKET">>,
     <<",", "COMMA">>, <<";", "SEMICOLON">>, <<":", "COLON">>, <<".", "DOT">>,
     <<">", "GT">>, <<"<", "LT">>}

(* int(result) of get_number, for the numerals of the programs            *)
Numerals ==
    {<<"0", 0>>, <<"1", 1>>, <<"2", 2>>, <<"3", 3>>, <<"7", 7>>, <<"9", 9>>, <<"42", 42>>}

(* The numeral of the programs for the number n.                          *)
Numeral(n) == (CHOOSE e \in Numerals : e[2] = n)[1]

(* get_string, for the quoted strings of the programs                     *)
Quoted == {<<"\"a\"", "a">>, <<"\"hi\"", "hi">>}

(* Characters that start no token.                                        *)
InvalidChars == {"$", "!", "@", "#", "%", "&", "?"}

Lookup(table, lexeme) == (CHOOSE e \in table : e[1] = lexeme)[2]

InTable(table, lexeme) == \E e \in table : e[1] = lexeme

(* Lexer.get_next_token on one lexeme: the token as <<type, value>>.      *)
get_next_token(lexeme) ==
    IF InTable(Quoted, lexeme) THEN <<"STRING", Lookup(Quoted, lexeme)>>
    ELSE IF InTable(Numerals, lexeme) THEN <<"NUMBER", Lookup(Numerals, lexeme)>>
    ELSE IF InTable(Reserved, lexeme)
    THEN IF lexeme \in {"true", "false"} THEN <<"BOOLEAN", lexeme = "true">>
         ELSE <<Lookup(Reserved, lexeme), lexeme>>
    ELSE IF InTable(Operators, lexeme)
    THEN IF Lookup(Operators, lexeme) = "ARROW" THEN <<"ARROW", "=>">>
         ELSE <<Lookup(Operators, lexeme), lexeme>>
    ELSE IF lexeme \in InvalidChars THEN <<"LEXERROR", lexeme>>
    ELSE <<"ID", lexeme>>

(* ------------------------------- parser ------------------------------- *)

(* The parser's state.  tokens holds, for every lexeme of the text, the   *)
(* token that get_next_token makes of it (a token is made when the parser *)
(* asks for it, so a lexeme that makes get_next_token raise does so when  *)
(* the lexer reaches it).  The cursor is what the checkpoints save: the   *)
(* lexer's pos (the index of the lexeme it stands on), its lineno, its    *)
(* current_char (the lexeme it stands on, "" at the end of the text) and  *)
(* the parser's current_token.  A line break is the lexeme "\n": white    *)
(* space that the lexer skips, counting the line.  node is the value just *)
(* returned, err the exception raised if any, defs what has been put into *)
(* function_table, restores the history of the restores made: for each,   *)
(* the cursor that was saved and the cursor after the restore.            *)

Failed(ps) == ps.err # None

Fail(ps, kind) == IF Failed(ps) THEN ps ELSE [ps EXCEPT !.err = <<"exc", kind>>]

Node(ps, node) == IF Failed(ps) THEN ps ELSE [ps EXCEPT !.node = node]

(* The lexeme at index pos makes get_next_token raise.                    *)
BadAt(tokens, pos) == pos <= Len(tokens) /\ tokens[pos][1] = "LEXERROR"

current_token(ps) == ps.current_token

Type(ps) == current_token(ps)[1]

CharAt(ps, pos) == IF pos <= Len(ps.text) THEN ps.text[pos] ELSE ""

(* Lexer.advance, once per lexeme                                         *)
Advance(ps) ==
    [ps EXCEPT !.lineno = IF ps.current_char = "\n" THEN @ + 1 ELSE @,
               !.pos = @ + 1,
               !.current_char = CharAt(ps, ps.pos + 1)]

(* Lexer.skip_whitespace                                                  *)
RECURSIVE SkipLines(_)
SkipLines(ps) == IF ps.current_char = "\n" THEN SkipLines(Advance(ps)) ELSE ps

(* Lexer.get_next_token, where the lexer stands in the text of the parser *)
(* ps: the parser with the lexer moved on and the token in node.          *)
LexerNext(ps) ==
    LET Token(at) ==
            IF at.current_char = "" THEN [at EXCEPT !.node = <<"EOF", None>>]
            ELSE IF BadAt(at.tokens, at.pos) THEN Fail(at, "LexError")
            ELSE [Advance(at) EXCEPT !.node = at.tokens[at.pos]]
    IN Token(SkipLines(ps))

(* get_next_token with the lexer at index pos of the text and its line    *)
(* counter at 0: the index and the character it leaves, the lines it      *)
(* passes, and the token or the error.                                    *)
TokenFrom(ps, pos) ==
    LET Left(got) == [pos |-> got.pos, lineno |-> got.lineno,
                      current_char |-> got.current_char,
                      node |-> got.node, err |-> got.err]
    IN Left(LexerNext([ps EXCEPT !.pos = pos, !.lineno = 0,
                                 !.current_char = CharAt(ps, pos)]))

(* self.lexer.get_next_token() of the parser, from the table that         *)
(* NewParser computes with TokenFrom at every index of the text.          *)
TokenAhead(ps) ==
    LET got == ps.scan[ps.pos]
    IN [ps EXCEPT !.pos = got.pos, !.lineno = @ + got.lineno,
                  !.current_char = got.current_char,
                  !.node = IF got.err = None THEN got.node ELSE @,
                  !.err = got.err]

(* self.current_token = self.lexer.get_next_token()                       *)
NextToken(ps) ==
    LET Taken(got) == IF Failed(got) THEN got ELSE [got EXCEPT !.current_token = got.node]
    IN Taken(TokenAhead(ps))

(* Parser.__init__: self.current_token = self.lexer.get_next_token()      *)
NewParser(src) ==
    LET Scanned(ps) ==
            [ps EXCEPT !.scan = [pos \in 1..Len(src) + 1 |-> TokenFrom(ps, pos)]]
    IN NextToken(Scanned(
           [text |-> src,
            tokens |-> [i \in 1..Len(src) |-> get_next_token(src[i])],
            scan |-> <<>>,
            pos |-> 1, lineno |-> 1,
            current_char |-> IF Len(src) >= 1 THEN src[1] ELSE "",
            current_token |-> None,
            node |-> None, err |-> None, defs |-> EmptyDict, restores |-> <<>>]))

(* Parser.eat                                                             *)
eat(ps, token_type) ==
    IF Failed(ps) THEN ps
    ELSE IF Type(ps) # token_type THEN Fail(ps, "ParseError")
    ELSE NextToken(ps)

(* What a checkpoint saves.                                               *)
Cursor(ps) == <<ps.pos, ps.lineno, ps.current_char, ps.current_token>>

(* Restore without the assignment to self.lexer.lineno.                   *)
RestoreKeepingLine(after, saved) ==
    LET Logged(r) == [r EXCEPT !.restores = Append(@, <<Cursor(saved), Cursor(r)>>)]
    IN Logged([after EXCEPT !.pos = saved.pos,
                            !.current_char = saved.current_char,
                            !.current_token = saved.current_token])

(* self.lexer.pos = saved_pos; self.lexer.lineno = saved_lineno;          *)
(* self.lexer.current_char = saved_current_char;                          *)
(* self.current_token = saved_token                                       *)
(* with the cursor of the parser saved, in the parser after.              *)
Restore(after, saved) ==
    LET Logged(r) == [r EXCEPT !.restores = Append(@, <<Cursor(saved), Cursor(r)>>)]
    IN Logged([after EXCEPT !.pos = saved.pos,
                            !.lineno = saved.lineno,
                            !.current_char = saved.current_char,
                            !.current_token = saved.current_token])

(* Parser.peek: the parser after it, with the next token in node; an      *)
(* exception of the lexer leaves before the restore.                      *)
peek(ps) ==
    LET Peeked(got) == IF Failed(got) THEN got ELSE Restore(got, ps)
    IN Peeked(TokenAhead(ps))

RECURSIVE statement_list_from(_, _), statement(_), simple_statement(_)
RECURSIVE compound_statement(_), Level(_, _), LevelLoop(_, _, _)
RECURSIVE unary_expression(_), primary_expression(_), arg_list_from(_, _)
RECURSIVE method_list_from(_, _), assignment_or_expression(_)

(* LevelTypes with the operators of + and - binding tighter than * and /. *)
LevelTypesAdditiveTighter(level) ==
    CASE level = 1 -> {"OR"}
      [] level = 2 -> {"AND"}
      [] level = 3 -> {"EQ", "NE"}
      [] level = 4 -> {"GT", "LT", "GE", "LE"}
      [] level = 5 -> {"TIMES", "DIVIDE"}
      [] OTHER -> {"PLUS", "MINUS"}

LevelTypes(level) ==
    CASE level = 1 -> {"OR"}
      [] level = 2 -> {"AND"}
      [] level = 3 -> {"EQ", "NE"}
      [] level = 4 -> {"GT", "LT", "GE", "LE"}
      [] level = 5 -> {"PLUS", "MINUS"}
      [] OTHER -> {"TIMES", "DIVIDE"}

(* The operand of a binary expression of the given level.                 *)
Operand(level, ps) == IF level = 6 THEN unary_expression(ps) ELSE Level(level + 1, ps)

(* while self.current_token.type in (...):                                *)
(*     node = (token.value, node, operand)                                *)
LevelLoop(level, ps, node) ==
    IF Failed(ps) THEN ps
    ELSE IF Type(ps) \notin LevelTypes(level) THEN Node(ps, node)
    ELSE LET token == current_token(ps)
             Rest(right) == LevelLoop(level, right, <<token[2], node, right.node>>)
         IN Rest(Operand(level, eat(ps, token[1])))

Level(level, ps) ==
    LET Rest(left) == LevelLoop(level, left, left.node)
    IN Rest(Operand(level, ps))

multiplicative_expression(ps) == Level(6, ps)

additive_expression(ps) == Level(5, ps)

relational_expression(ps) == Level(4, ps)

equality_expression(ps) == Level(3, ps)

logical_and_expression(ps) == Level(2, ps)

logical_or_expression(ps) == Level(1, ps)

expression(ps) == logical_or_expression(ps)

unary_expression(ps) ==
    IF Failed(ps) THEN ps
    ELSE IF Type(ps) = "NOT"
    THEN LET token == current_token(ps)
             Negated(r) == Node(r, <<token[2], r.node>>)
         IN Negated(unary_expression(eat(ps, "NOT")))
    ELSE primary_expression(ps)

(* The loop of arg_list, and of array_literal, after an expression.       *)
arg_list_from(ps, args) ==
    IF Failed(ps) THEN ps
    ELSE IF Type(ps) # "COMMA" THEN Node(ps, args)
    ELSE LET Rest(r) == arg_list_from(r, Append(args, r.node))
         IN Rest(expression(eat(ps, "COMMA")))

arg_list(ps) ==
    IF Failed(ps) THEN ps
    ELSE IF Type(ps) = "RPAREN" THEN Node(ps, <<>>)
    ELSE LET Rest(r) == arg_list_from(r, << r.node >>)
         IN Rest(expression(ps))

array_literal(ps) ==
    LET a == eat(ps, "LBRACKET")
    IN IF Failed(a) THEN a
       ELSE IF Type(a) = "RBRACKET" THEN Node(eat(a, "RBRACKET"), <<"array", <<>>>>)
       ELSE LET Closed(rest) == Node(eat(rest, "RBRACKET"), <<"array", rest.node>>)
                Rest(first) == Closed(arg_list_from(first, << first.node >>))
            IN Rest(expression(a))

(* while self.current_token.type == 'ID': params.append(...); eat('ID');  *)
(*     if self.current_token.type == 'COMMA': eat('COMMA')                *)
RECURSIVE arrow_params(_, _)
arrow_params(ps, params) ==
    IF Failed(ps) THEN ps
    ELSE IF Type(ps) # "ID" THEN Node(ps, params)
    ELSE LET name == current_token(ps)[2]
             a == eat(ps, "ID")
         IN IF Failed(a) THEN a
            ELSE arrow_params(IF Type(a) = "COMMA" THEN eat(a, "COMMA") ELSE a,
                              Append(params, name))

primary_expression(ps) ==
    IF Failed(ps) THEN ps
    ELSE LET token == current_token(ps)
         IN CASE token[1] \in {"INPUT", "PARSEINT"} -> Fail(ps, "Unmodelled")
              [] token[1] = "LBRACKET" -> array_literal(ps)
              [] token[1] = "LPAREN" ->
                   LET Arrow(params, body) ==
                           Node(body, <<"arrow_func", params.node, body.node>>)
                       Parenthesized(inner) == Node(eat(inner, "RPAREN"), inner.node)
                       Again(tried) ==
                           Parenthesized(expression(eat(Restore(tried, ps), "LPAREN")))
                       Closed(params, closed) ==
                           IF Failed(closed) THEN closed
                           ELSE IF Type(params) = "RPAREN" /\ Type(closed) = "ARROW"
                           THEN Arrow(params, expression(eat(closed, "ARROW")))
                           ELSE Again(closed)
                       Params(params) ==
                           Closed(params, IF ~Failed(params) /\ Type(params) = "RPAREN"
                                          THEN eat(params, "RPAREN") ELSE params)
                   IN Params(arrow_params(eat(ps, "LPAREN"), <<>>))
              [] token[1] = "NEW" ->
                   LET a == eat(ps, "NEW")
                       class_name == current_token(a)[2]
                       Built(args) == Node(eat(args, "RPAREN"), <<"new", class_name, args.node>>)
                   IN Built(arg_list(eat(eat(a, "ID"), "LPAREN")))
              [] token[1] = "ID" ->
                   LET id_name == token[2]
                       a == eat(ps, "ID")
                   IN IF Failed(a) THEN a
                      ELSE CASE Type(a) = "ARROW" ->
                                  LET Arrow(body) ==
                                          Node(body, <<"arrow_func", << id_name >>, body.node>>)
                                  IN Arrow(expression(eat(a, "ARROW")))
                             [] Type(a) = "LPAREN" ->
                                  LET Call(args) ==
                                          Node(eat(args, "RPAREN"),
                                               <<"func_call", id_name, args.node>>)
                                  IN Call(arg_list(eat(a, "LPAREN")))
                             [] Type(a) = "LBRACKET" ->
                                  LET Access(index) ==
                                          Node(eat(index, "RBRACKET"),
                                               <<"array_access", <<"var", id_name>>,
                                                 index.node>>)
                                  IN Access(expression(eat(a, "LBRACKET")))
                             [] Type(a) = "DOT" ->
                                  LET d == eat(a, "DOT")
                                      field == current_token(d)[2]
                                      f == eat(d, "ID")
                                      Call(args) ==
                                          Node(eat(args, "RPAREN"),
                                               <<"method_call", <<"var", id_name>>, field,
                                                 args.node>>)
                                  IN IF Failed(f) THEN f
                                     ELSE IF Type(f) = "LPAREN"
                                     THEN Call(arg_list(eat(f, "LPAREN")))
                                     ELSE Node(f, <<"field_access", <<"var", id_name>>, field>>)
                             [] OTHER -> Node(a, <<"var", id_name>>)
              [] token[1] = "NUMBER" -> Node(eat(ps, "NUMBER"), <<"number", token[2]>>)
              [] token[1] = "BOOLEAN" -> Node(eat(ps, "BOOLEAN"), <<"boolean", token[2]>>)
              [] token[1] = "STRING" -> Node(eat(ps, "STRING"), <<"string", token[2]>>)
              [] token[1] = "NULL" -> Node(eat(ps, "NULL"), <<"null", None>>)
              [] OTHER -> Fail(ps, "ParseError")

return_statement(ps) ==
    LET Built(expr) == Node(expr, <<"return", expr.node>>)
    IN Built(expression(eat(ps, "RETURN")))

assignment(ps) ==
    IF Failed(ps) THEN ps
    ELSE LET var_name == current_token(ps)[2]
             a == eat(ps, "ID")
             ArrayAssign(index, expr) ==
                 Node(expr, <<"array_assign", var_name, index.node, expr.node>>)
             Indexed(index) ==
                 ArrayAssign(index, expression(eat(eat(index, "RBRACKET"), "EQUALS")))
             Assign(expr) == Node(expr, <<"assign", var_name, expr.node>>)
         IN IF Failed(a) THEN a
            ELSE IF Type(a) = "LBRACKET" THEN Indexed(expression(eat(a, "LBRACKET")))
            ELSE Assign(expression(eat(a, "EQUALS")))

let_declaration(ps) ==
    LET a == eat(ps, "LET")
        var_name == current_token(a)[2]
        Built(expr) == Node(expr, <<"declare", var_name, expr.node, FALSE>>)
    IN Built(expression(eat(eat(a, "ID"), "EQUALS")))

const_declaration(ps) ==
    LET a == eat(ps, "CONST")
        var_name == current_token(a)[2]
        Built(expr) == Node(expr, <<"declare", var_name, expr.node, TRUE>>)
    IN Built(expression(eat(eat(a, "ID"), "EQUALS")))

print_statement(ps) ==
    LET Built(expr) == Node(eat(expr, "RPAREN"), <<"print", expr.node, 1>>)
    IN Built(expression(eat(eat(ps, "PRINT"), "LPAREN")))

(* The loop of param_list after the first parameter.                      *)
RECURSIVE param_list_from(_, _)
param_list_from(ps, params) ==
    IF Failed(ps) THEN ps
    ELSE IF Type(ps) # "COMMA" THEN Node(ps, params)
    ELSE LET c == eat(ps, "COMMA")
             param == current_token(c)[2]
         IN param_list_from(eat(c, "ID"), Append(params, param))

param_list(ps) ==
    IF Failed(ps) THEN ps
    ELSE IF Type(ps) = "RPAREN" THEN Node(ps, <<>>)
    ELSE param_list_from(eat(ps, "ID"), << current_token(ps)[2] >>)

(* while self.current_token.type != 'EOF' and != 'RBRACE':                *)
(*     statements.append(self.statement())                                *)
statement_list_from(ps, statements) ==
    IF Failed(ps) THEN ps
    ELSE IF Type(ps) \in {"EOF", "RBRACE"} THEN Node(ps, statements)
    ELSE LET Rest(r) == statement_list_from(r, Append(statements, r.node))
         IN Rest(statement(ps))

statement_list(ps) == statement_list_from(ps, <<>>)

(* LBRACE statement_list RBRACE                                           *)
block(ps) ==
    LET Closed(statements) == Node(eat(statements, "RBRACE"), statements.node)
    IN Closed(statement_list(eat(ps, "LBRACE")))

function_def(ps) ==
    LET a == eat(ps, "DEF")
        func_name == current_token(a)[2]
        Built(params, statements) ==
            LET node == <<"func_def", func_name, params.node, statements.node>>
            IN IF Failed(statements) THEN statements
               ELSE [statements EXCEPT !.node = node, !.defs = Put(@, func_name, node)]
        Body(params) == Built(params, block(eat(params, "RPAREN")))
    IN Body(param_list(eat(eat(a, "ID"), "LPAREN")))

if_statement(ps) ==
    LET WithElse(condition, true_branch, false_branch) ==
            Node(false_branch,
                 <<"if", condition.node, true_branch.node, false_branch.node>>)
        Else(condition, true_branch) ==
            IF Failed(true_branch) THEN true_branch
            ELSE IF Type(true_branch) = "ELSE"
            THEN WithElse(condition, true_branch, block(eat(true_branch, "ELSE")))
            ELSE Node(true_branch, <<"if", condition.node, true_branch.node, None>>)
        Then(condition) == Else(condition, block(eat(condition, "RPAREN")))
    IN Then(expression(eat(eat(ps, "IF"), "LPAREN")))

while_loop(ps) ==
    LET Built(condition, body) == Node(body, <<"while", condition.node, body.node>>)
        Body(condition) == Built(condition, block(eat(condition, "RPAREN")))
    IN Body(expression(eat(eat(ps, "WHILE"), "LPAREN")))

for_loop(ps) ==
    LET Built(init, condition, update, body) ==
            Node(body, <<"for", init.node, condition.node, update.node, body.node>>)
        Body(init, condition, update) ==
            Built(init, condition, update, block(eat(update, "RPAREN")))
        Step(init, condition) ==
            Body(init, condition, assignment(eat(condition, "SEMICOLON")))
        Condition(init) == Step(init, expression(eat(init, "SEMICOLON")))
    IN Condition(assignment(eat(eat(ps, "FOR"), "LPAREN")))

method(ps) ==
    LET method_name == current_token(ps)[2]
        Built(params, statements) ==
            Node(statements, <<"method", method_name, params.node, statements.node>>)
        Body(params) == Built(params, block(eat(params, "RPAREN")))
    IN Body(param_list(eat(eat(ps, "ID"), "LPAREN")))

method_list_from(ps, methods) ==
    IF Failed(ps) THEN ps
    ELSE IF Type(ps) # "ID" THEN Node(ps, methods)
    ELSE LET Rest(r) == method_list_from(r, Append(methods, r.node))
         IN Rest(method(ps))

class_def(ps) ==
    LET a == eat(ps, "CLASS")
        class_name == current_token(a)[2]
        Built(methods, closed) ==
            LET node == <<"class_def", class_name, methods.node>>
            IN IF Failed(closed) THEN closed
               ELSE [closed EXCEPT !.node = node,
                                   !.defs = Put(@, "__class_" \o class_name, node)]
        Closed(methods) == Built(methods, eat(methods, "RBRACE"))
    IN Closed(method_list_from(eat(eat(a, "ID"), "LBRACE"), <<>>))

parallel_block(ps) ==
    LET Built(statements) == Node(statements, <<"parallel", statements.node>>)
    IN Built(block(eat(ps, "PARALLEL")))

repeat_loop(ps) ==
    LET a == eat(ps, "REPEAT")
        token == current_token(a)
        Built(count_expr, statements) ==
            Node(statements, <<"repeat", count_expr.node, statements.node>>)
        Body(count_expr) == Built(count_expr, block(eat(count_expr, "TIMES")))
    IN Body(CASE Failed(a) -> a
              [] token[1] = "NUMBER" -> Node(eat(a, "NUMBER"), <<"number", token[2]>>)
              [] token[1] = "ID" -> Node(eat(a, "ID"), <<"var", token[2]>>)
              [] OTHER -> expression(a))

compound_statement(ps) ==
    IF Failed(ps) THEN ps
    ELSE CASE Type(ps) = "DEF" -> function_def(ps)
           [] Type(ps) = "IF" -> if_statement(ps)
           [] Type(ps) = "WHILE" -> while_loop(ps)
           [] Type(ps) = "FOR" -> for_loop(ps)
           [] Type(ps) = "STRUCT" -> Fail(ps, "Unmodelled")
           [] Type(ps) = "CLASS" -> class_def(ps)
           [] Type(ps) = "PARALLEL" -> parallel_block(ps)
           [] Type(ps) = "REPEAT" -> repeat_loop(ps)
           [] OTHER -> Fail(ps, "ParseError")

(* The look-ahead of simple_statement at ID LBRACKET: the tokens up to    *)
(* the closing bracket are read, under a try, to see whether EQUALS       *)
(* follows.                                                               *)
TentativeIndex(ps) == eat(expression(eat(eat(ps, "ID"), "LBRACKET")), "RBRACKET")

IsArrayAssignment(tried) == ~Failed(tried) /\ Type(tried) = "EQUALS"

(* except: pass                                                           *)
Caught(ps) == [ps EXCEPT !.err = None]

(* The look-ahead of simple_statement at an identifier: the parser with   *)
(* its cursor where it was, and in node which of self.assignment() and    *)
(* self.expression() the statement is parsed with.                        *)
LookAhead(ps) ==
    LET Tried(saved, tried) ==
            Node(Restore(Caught(tried), saved),
                 IF IsArrayAssignment(tried) THEN "assignment" ELSE "expression")
        Second(p) ==
            IF Failed(p) THEN p
            ELSE IF p.node[1] = "LBRACKET" THEN Tried(p, TentativeIndex(p))
            ELSE Node(p, "expression")
        First(p) ==
            IF Failed(p) THEN p
            ELSE IF p.node[1] = "EQUALS" THEN Node(p, "assignment")
            ELSE Second(peek(p))
    IN First(peek(ps))

(* return self.assignment() or return self.expression()                   *)
assignment_or_expression(ps) ==
    IF Failed(ps) THEN ps
    ELSE IF ps.node = "assignment" THEN assignment(ps)
    ELSE expression(ps)

simple_statement(ps) ==
    IF Failed(ps) THEN ps
    ELSE CASE Type(ps) = "LET" -> let_declaration(ps)
           [] Type(ps) = "CONST" -> const_declaration(ps)
           [] Type(ps) = "ID" -> assignment_or_expression(LookAhead(ps))
           [] Type(ps) = "PRINT" -> print_statement(ps)
           [] Type(ps) = "RETURN" -> return_statement(ps)
           [] OTHER -> expression(ps)

statement(ps) ==
    IF Failed(ps) THEN ps
    ELSE IF Type(ps) \in {"DEF", "IF", "WHILE", "FOR", "STRUCT", "CLASS", "PARALLEL",
                          "REPEAT"}
    THEN LET Compound(stmt) ==
                 IF Failed(stmt) THEN stmt
                 ELSE IF Type(stmt) = "SEMICOLON"
                 THEN Node(eat(stmt, "SEMICOLON"), stmt.node)
                 ELSE stmt
         IN Compound(compound_statement(ps))
    ELSE LET Simple(stmt) == Node(eat(stmt, "SEMICOLON"), stmt.node)
         IN Simple(simple_statement(ps))

program(ps) ==
    LET Built(statements) == Node(statements, <<"program", statements.node>>)
    IN Built(statement_list(ps))

(* Parser(Lexer(text)).parse()                                            *)
parse(text) == program(NewParser(text))

(* ----------------------- statements that are run ---------------------- *)

Names == {"x", "z"}

Declares ==
    {<<"declare", "x", <<"number", 1>>, c>> : c \in BOOLEAN}
        \cup {<<"declare", "z", <<"number", 42>>, FALSE>>,
              <<"declare", "x", <<"var", "z">>, FALSE>>}

Assigns ==
    {<<"assign", "x", <<"number", 42>>>>,
     <<"assign", "x", <<"null", None>>>>,
     <<"assign", "z", <<"null", None>>>>}

Reads == {<<"var", n>> : n \in Names}

Calls ==
    {<<"func_call", f, <<>>>> : f \in {"fwhile", "fif", "frepeat", "ffor", "flast", "setx"}}
        \cup {<<"func_call", "spawn", << <<"number", 1>> >> >>}

BlockStmts ==
    {<<"declare", "z", <<"number", 42>>, FALSE>>,
     <<"var", "z">>}

(* Blocks of up to MaxBlockLen statements, none repeated back to back.    *)
Blocks ==
    {b \in UNION {[1..n -> BlockStmts] : n \in 0..MaxBlockLen} :
        \A i \in 1..(Len(b) - 1) : b[i] # b[i + 1]}

Parallels == {<<"parallel", b>> : b \in Blocks}

MainStmts == Declares \cup Assigns \cup Reads \cup Calls \cup Parallels

(* ------------------------------ threads ------------------------------- *)

Units == 1..MaxUnits

Threads == 0..MaxUnits

Idle ==
    [phase |-> "idle", body |-> <<>>, pc |-> 0, src |-> None, seen |-> <<>>,
     mi |-> 0, mchk |-> FALSE]

FreeIds == {u \in Units : threads[u].phase = "idle"}

RECURSIVE NthFree(_, _)
NthFree(free, k) ==
    LET m == CHOOSE i \in free : \A j \in free : i <= j
    IN IF k = 1 THEN m ELSE NthFree(free \ {m}, k - 1)

(* threading.Thread(target=execute_block); thread.start(): the new thread *)
(* holds a reference to the local_symbols of its spawner, not yet a copy. *)
Started(req, parent) ==
    [phase |-> "start", body |-> req.body, pc |-> 1,
     src |-> IF req.ref = <<"frame", 0>> THEN <<"live", parent>> ELSE req.ref,
     seen |-> req.seen, mi |-> 0, mchk |-> FALSE]

(* The for loop over thread_locals.items(): at item mi, or past the last. *)
AtItem(thr, dict, i) ==
    IF i > Len(dict)
    THEN [Idle EXCEPT !.phase = "done"]
    ELSE [thr EXCEPT !.phase = "merge", !.mi = i, !.mchk = FALSE]

(* After statement pc of the block: the next statement, or the merge.     *)
AfterStatement(thr, dict) ==
    IF thr.pc + 1 > Len(thr.body)
    THEN AtItem([thr EXCEPT !.pc = thr.pc + 1], dict, 1)
    ELSE [thr EXCEPT !.pc = thr.pc + 1]

Fresh(u) ==
    [val |-> None, sig |-> "ok", loc |-> locals[u], glob |-> symbol_table,
     out |-> <<>>, spawned |-> <<>>, frame |-> 0, stack |-> <<>>,
     ctx |-> "variable"]

(* A finished thread's dict is garbage unless a thread it started has yet *)
(* to copy it; nothing writes it any more, so that copy is taken here.    *)
Finished(thr) == thr.phase \in {"done", "error"}

Retire(T, L) ==
    /\ threads' =
         [t \in Threads |->
             IF /\ T[t].phase = "start"
                /\ T[t].src[1] = "live"
                /\ T[t].src[2] # 0
                /\ Finished(T[T[t].src[2]])
             THEN [T[t] EXCEPT !.src = <<"frozen", L[T[t].src[2]]>>]
             ELSE T[t]]
    /\ locals' = [t \in Threads |-> IF t # 0 /\ Finished(T[t]) THEN EmptyDict ELSE L[t]]

(* RunStatement with an exception of a block that also ends the main      *)
(* thread, as an exception that left execute_block uncaught would.        *)
RunStatementAborting(u, stmt) ==
    LET r == Evaluate(stmt, Fresh(u))
        me == IF r.sig = "ok"
              THEN IF u = 0 THEN [threads[0] EXCEPT !.pc = @ + 1]
                   ELSE AfterStatement(threads[u], r.loc)
              ELSE IF u = 0 THEN [threads[0] EXCEPT !.phase = "error"]
              ELSE [Idle EXCEPT !.phase = "error"]
        report == IF r.sig = "ok" THEN <<>>
                  ELSE IF u = 0 THEN << <<"Error", r.val>> >>
                  ELSE << <<"Error in parallel execution", r.val>> >>
    IN /\ Len(r.spawned) <= Cardinality(FreeIds)
       /\ symbol_table' = r.glob
       /\ Retire([t \in Threads |->
                    IF t = u THEN me
                    ELSE IF t = 0 /\ r.sig # "ok"
                    THEN [threads[0] EXCEPT !.phase = "error"]
                    ELSE IF \E k \in 1..Len(r.spawned) : NthFree(FreeIds, k) = t
                    THEN Started(r.spawned[CHOOSE k \in 1..Len(r.spawned) :
                                              NthFree(FreeIds, k) = t], u)
                    ELSE threads[t]],
                 [locals EXCEPT ![u] = r.loc])
       /\ last' = [unit |-> u, out |-> r.out \o report,
                   changed |-> Changed(symbol_table, r.glob)]

(* One statement evaluated by thread u (0 is the main thread).            *)
RunStatement(u, stmt) ==
    LET r == Evaluate(stmt, Fresh(u))
        me == IF r.sig = "ok"
              THEN IF u = 0 THEN [threads[0] EXCEPT !.pc = @ + 1]
                   ELSE AfterStatement(threads[u], r.loc)
              ELSE IF u = 0 THEN [threads[0] EXCEPT !.phase = "error"]
              ELSE [Idle EXCEPT !.phase = "error"]
        report == IF r.sig = "ok" THEN <<>>
                  ELSE IF u = 0 THEN << <<"Error", r.val>> >>
                  ELSE << <<"Error in parallel execution", r.val>> >>
    IN /\ Len(r.spawned) <= Cardinality(FreeIds)
       /\ symbol_table' = r.glob
       /\ Retire([t \in Threads |->
                    IF t = u THEN me
                    ELSE IF \E k \in 1..Len(r.spawned) : NthFree(FreeIds, k) = t
                    THEN Started(r.spawned[CHOOSE k \in 1..Len(r.spawned) :
                                              NthFree(FreeIds, k) = t], u)
                    ELSE threads[t]],
                 [locals EXCEPT ![u] = r.loc])
       /\ last' = [unit |-> u, out |-> r.out \o report,
                   changed |-> Changed(symbol_table, r.glob)]

(* MainStep with the main thread joining the threads it started before    *)
(* its next statement.                                                    *)
MainStepJoining ==
    /\ threads[0].phase = "run"
    /\ threads[0].pc <= MaxMainSteps
    /\ \A u \in Units : threads[u].phase \in {"idle", "done", "error"}
    /\ \E stmt \in MainStmts : RunStatement(0, stmt)

(* interpreter.evaluate(result) of run_file: the statements of the        *)
(* program, in order, in one dict; an exception ends the run.             *)
MainStep ==
    /\ threads[0].phase = "run"
    /\ threads[0].pc <= MaxMainSteps
    /\ \E stmt \in MainStmts : RunStatement(0, stmt)

(* thread_locals = local_symbols.copy() if local_symbols else {}          *)
UnitCopy(u) ==
    /\ threads[u].phase = "start"
    /\ LET src == threads[u].src
           dict == IF src[1] = "live" THEN locals[src[2]] ELSE src[2]
           thr == [threads[u] EXCEPT !.phase = "run", !.src = None, !.seen = <<>>]
       IN Retire([threads EXCEPT ![u] =
                     IF Len(thr.body) = 0 THEN AtItem(thr, dict, 1) ELSE thr],
                 [locals EXCEPT ![u] = dict])
    /\ last' = [unit |-> u, out |-> <<>>, changed |-> {}]
    /\ UNCHANGED symbol_table

(* for stmt in node[1]: result = self.evaluate(stmt, thread_locals)       *)
UnitStep(u) ==
    /\ threads[u].phase = "run"
    /\ threads[u].pc <= Len(threads[u].body)
    /\ RunStatement(u, threads[u].body[threads[u].pc])

(* MergeCheck with the test left out: every item is written.              *)
MergeCheckAlways(u) ==
    /\ threads[u].phase = "merge"
    /\ ~threads[u].mchk
    /\ Retire([threads EXCEPT ![u] = [@ EXCEPT !.mchk = TRUE]], locals)
    /\ last' = [unit |-> u, out |-> <<>>, changed |-> {}]
    /\ UNCHANGED symbol_table

(* if key in self.symbol_table:                                           *)
MergeCheck(u) ==
    /\ threads[u].phase = "merge"
    /\ ~threads[u].mchk
    /\ LET key == locals[u][threads[u].mi][1]
       IN /\ Retire([threads EXCEPT ![u] =
                        IF Has(symbol_table, key) THEN [@ EXCEPT !.mchk = TRUE]
                        ELSE AtItem(@, locals[u], @.mi + 1)],
                    locals)
          /\ last' = [unit |-> u, out |-> <<>>, changed |-> {}]
    /\ UNCHANGED symbol_table

(* The names a statement declares or assigns.                             *)
WrittenNames(stmt) ==
    IF stmt[1] \in {"declare", "assign", "array_assign"} THEN {stmt[2]} ELSE {}

(* MergeWrite that writes only the names the block declares or assigns.   *)
MergeWriteOwn(u) ==
    /\ threads[u].phase = "merge"
    /\ threads[u].mchk
    /\ LET key == locals[u][threads[u].mi][1]
           value == locals[u][threads[u].mi][2]
           own == UNION {WrittenNames(threads[u].body[i]) : i \in 1..Len(threads[u].body)}
       IN /\ symbol_table' = IF key \in own THEN Put(symbol_table, key, value)
                             ELSE symbol_table
          /\ Retire([threads EXCEPT ![u] = AtItem(@, locals[u], @.mi + 1)], locals)
          /\ last' = [unit |-> u, out |-> <<>>,
                      changed |-> Changed(symbol_table, symbol_table')]

(* MergeWrite that writes the value of a (val, is_const) pair, not the    *)
(* pair.                                                                  *)
MergeWriteBare(u) ==
    /\ threads[u].phase = "merge"
    /\ threads[u].mchk
    /\ LET key == locals[u][threads[u].mi][1]
           value == locals[u][threads[u].mi][2]
       IN /\ symbol_table' = Put(symbol_table, key, Unwrap(value))
          /\ Retire([threads EXCEPT ![u] = AtItem(@, locals[u], @.mi + 1)], locals)
          /\ last' = [unit |-> u, out |-> <<>>,
                      changed |-> Changed(symbol_table, symbol_table')]

(*     self.symbol_table[key] = value                                     *)
MergeWrite(u) ==
    /\ threads[u].phase = "merge"
    /\ threads[u].mchk
    /\ LET key == locals[u][threads[u].mi][1]
           value == locals[u][threads[u].mi][2]
       IN /\ symbol_table' = Put(symbol_table, key, value)
          /\ Retire([threads EXCEPT ![u] = AtItem(@, locals[u], @.mi + 1)], locals)
          /\ last' = [unit |-> u, out |-> <<>>,
                      changed |-> Changed(symbol_table, symbol_table')]

UnitAct(u) == UnitCopy(u) \/ UnitStep(u) \/ MergeCheck(u) \/ MergeWrite(u)

Init ==
    /\ symbol_table = EmptyDict
    /\ locals = [t \in Threads |-> EmptyDict]
    /\ threads = [t \in Threads |->
                    IF t = 0 THEN [Idle EXCEPT !.phase = "run", !.pc = 1] ELSE Idle]
    /\ last = [unit |-> 0, out |-> <<>>, changed |-> {}]

Next ==
    \/ MainStep
    \/ \E u \in Units : UnitCopy(u)
    \/ \E u \in Units : UnitStep(u)
    \/ \E u \in Units : MergeCheck(u)
    \/ \E u \in Units : MergeWrite(u)

Spec == Init /\ [][Next]_vars

(* The host keeps scheduling the started threads: while some started      *)
(* thread has a step left, a step of a started thread is taken.  (Blocks  *)
(* are finite, so every started thread then gets to its end.)             *)
FairSpec == Spec /\ WF_vars(\E u \in Units : UnitAct(u))

(* ------------------- one thread: setups and probes -------------------- *)

Num(c) == IF c < 0 THEN <<"-", <<"number", 0>>, <<"number", 0 - c>>>> ELSE <<"number", c>>

Let(n, e) == <<"declare", n, e, FALSE>>

Show(e) == <<"print", e, 1>>

(* [10, 20, ...] of the given length                                      *)
ArrayOf(len) == <<"array", [i \in 1..len |-> <<"number", 10 * i>>]>>

(* Expressions whose value is a count or an index, or is neither.         *)
Scalars ==
    {Num(c) : c \in (0 - 1)..MaxCount}
        \cup {<<"boolean", TRUE>>, <<"boolean", FALSE>>, <<"string", "a">>,
              <<"/", <<"number", 4>>, <<"number", 2>>>>, <<"null", None>>}

AddXY == <<"arrow_func", <<"x", "y">>, <<"+", <<"var", "x">>, <<"var", "y">>>>>>

AddK == <<"arrow_func", <<"y">>, <<"+", <<"var", "y">>, <<"var", "k">>>>>>

(* The programs run before the probes.                                    *)
Setups ==
    {<< Let("k", Num(0)), Let("n", e) >> : e \in Scalars \ {<<"null", None>>}}
        \cup {<< <<"declare", "a", ArrayOf(len), c>>, Let("i", <<"boolean", TRUE>>) >> :
                 len \in 0..MaxLen, c \in BOOLEAN}
        \cup {<< Let("add", AddXY) >>,
              << Let("x", Num(10)), Let("add", AddXY) >>,
              << Let("k", Num(10)), Let("add", AddK) >>,
              << Let("p", <<"new", "P", <<>>>>) >>,
              << <<"func_call", "setx", <<>>>> >>,
              << Let("z", Num(1)), <<"func_call", "setx", <<>>>> >>,
              << Let("x", Num(1)), <<"assign", "x", Num(2)>>,
                 <<"func_call", "setx", <<>>>> >>}

RepeatBody ==
    << Show(<<"var", "k">>),
       <<"assign", "k", <<"+", <<"var", "k">>, <<"number", 1>>>>>> >>

RepeatProbes ==
    {<<"repeat", e, RepeatBody>> : e \in {Num(c) : c \in 0..MaxCount} \cup {<<"var", "n">>}}

IndexExprs == Scalars \cup {<<"var", "i">>, <<"var", "u">>}

ArrayProbes ==
    {<<"array_assign", "a", e, <<"number", 9>>>> : e \in IndexExprs}
        \cup {Show(<<"array_access", <<"var", "a">>, e>>) : e \in IndexExprs}
        \cup {Show(<<"array_access", <<"var", "u">>, <<"number", 0>>>>),
              <<"array_assign", "u", <<"number", 0>>, <<"number", 9>>>>}

ArgLists == {[i \in 1..n |-> <<"number", i>>] : n \in 0..3}

CallProbes ==
    {<<"func_call", f, args>> : f \in {"add", "spawn", "setx"}, args \in ArgLists}
        \cup {<<"method_call", <<"var", "p">>, m, args>> :
                 m \in {"get", "two"}, args \in ArgLists}

ReadNames == {"x", "z", "k", "n", "a", "u"}

ReadProbes == {Show(<<"var", n>>) : n \in ReadNames}

Probes == RepeatProbes \cup ArrayProbes \cup CallProbes \cup ReadProbes

(* A fresh interpreter that has run the program setup.                    *)
AfterSetup(setup) ==
    Evaluate(<<"program", setup>>,
             [val |-> None, sig |-> "ok", loc |-> EmptyDict, glob |-> EmptyDict,
              out |-> <<>>, spawned |-> <<>>, frame |-> 0, stack |-> <<>>,
              ctx |-> "variable"])

EvalInit ==
    \E setup \in Setups :
        /\ AfterSetup(setup).sig = "ok"
        /\ symbol_table = AfterSetup(setup).glob
        /\ locals = [t \in Threads |-> IF t = 0 THEN AfterSetup(setup).loc ELSE EmptyDict]
        /\ threads = [t \in Threads |->
                        IF t = 0 THEN [Idle EXCEPT !.phase = "run", !.pc = 1] ELSE Idle]
        /\ last = [unit |-> 0, out |-> AfterSetup(setup).out, changed |-> {}]

(* The next statement of the program, in the main thread's dict.          *)
ProbeStep ==
    /\ threads[0].phase = "run"
    /\ threads[0].pc <= MaxProbes
    /\ \E stmt \in Probes : RunStatement(0, stmt)

EvalSpec == EvalInit /\ [][ProbeStep]_vars

(* ------------------------- the run of a file -------------------------- *)

(* Programs that parse and run to their end.                              *)
GoodTexts ==
    {<<"print", "(", "1", ")", ";">>,
     <<"let", "x", "=", "1", ";", "print", "(", "x", ")", ";">>,
     <<"let", "x", "=", "1", ";", "parallel", "{", "print", "(", "x", ")", ";", "}">>,
     <<"class", "P", "{",
       "get", "(", ")", "{", "return", "7", ";", "}",
       "two", "(", "a", ",", "b", ")", "{", "return", "a", "+", "b", ";", "}",
       "}",
       "let", "p", "=", "new", "P", "(", ")", ";",
       "print", "(", "p", ".", "two", "(", "1", ",", "2", ")", ")", ";">>}

(* What follows a good program in a text with an error: a character that  *)
(* starts no token, a declaration without a name, a closing brace that    *)
(* closes nothing (alone, and with more text after it).                   *)
BadTails ==
    {<<"$">>,
     <<"let", "=", "3", ";">>,
     <<"}">>,
     <<"}", "print", "(", "2", ")", ";", "$">>}

ErrorTexts == {good \o tail : good \in GoodTexts, tail \in BadTails}

(* The simple statements, without the SEMICOLON.                          *)
SimpleTexts ==
    {<<"let", "x", "=", "1">>,
     <<"const", "x", "=", "1">>,
     <<"x", "=", "1">>,
     <<"print", "(", "1", ")">>,
     <<"return", "1">>,
     <<"1", "+", "2">>}

Places == {"end", "brace", "next"}

(* The simple statement at the end of the text, before a closing brace,   *)
(* or before the next statement; with the SEMICOLON or without it.        *)
Placed(simple, place, semicolon) ==
    LET stmt == IF semicolon THEN simple \o <<";">> ELSE simple
    IN CASE place = "end" -> stmt
         [] place = "brace" -> <<"if", "(", "true", ")", "{">> \o stmt \o <<"}">>
         [] OTHER -> stmt \o <<"print", "(", "2", ")", ";">>

PlacedTexts ==
    {Placed(simple, place, semicolon) :
        simple \in SimpleTexts, place \in Places, semicolon \in BOOLEAN}

(* Count expressions: a literal, a variable, parenthesized expressions,   *)
(* binary expressions.                                                    *)
CountTexts ==
    {<<"2">>, <<"n">>, <<"(", "2", ")">>, <<"(", "n", "+", "1", ")">>,
     <<"n", "+", "1">>, <<"2", "-", "1">>}

(* let n = 1; repeat <count> times { print(n); }, with "times" or "*"     *)
RepeatText(count, times) ==
    <<"let", "n", "=", "1", ";", "repeat">> \o count
        \o << times, "{", "print", "(", "n", ")", ";", "}" >>

RepeatTexts == {RepeatText(count, times) : count \in CountTexts, times \in {"times", "*"}}

(* class Q { me() { return this; } } let q = new Q(); print(q.me());      *)
ThisText ==
    <<"class", "Q", "{", "me", "(", ")", "{", "return", "this", ";", "}", "}",
      "let", "q", "=", "new", "Q", "(", ")", ";",
      "print", "(", "q", ".", "me", "(", ")", ")", ";">>

(* What the parser puts into function_table is what function_table holds. *)
DefsAgree(ps) ==
    \A i \in 1..Len(ps.defs) :
        /\ ps.defs[i][1] \in DOMAIN function_table
        /\ function_table[ps.defs[i][1]] = ps.defs[i][2]

Texts == GoodTexts \cup ErrorTexts \cup PlacedTexts \cup RepeatTexts \cup {ThisText}

(* run_file up to the Parser made: nothing parsed, nothing evaluated.     *)
FileInit ==
    /\ symbol_table = EmptyDict
    /\ locals = [t \in Threads |-> EmptyDict]
    /\ \E text \in Texts :
          threads = [t \in Threads |->
                       IF t = 0 THEN [Idle EXCEPT !.phase = "parse", !.src = text]
                       ELSE Idle]
    /\ last = [unit |-> 0, out |-> <<>>, changed |-> {}]

(* result = parser.parse(); an exception ends the run and is printed.     *)
ParseFile ==
    /\ threads[0].phase = "parse"
    /\ LET Parsed(result) ==
               /\ DefsAgree(result)
               /\ threads' =
                    [threads EXCEPT ![0] =
                        IF Failed(result) THEN [@ EXCEPT !.phase = "error"]
                        ELSE [@ EXCEPT !.phase = "run", !.body = result.node[2], !.pc = 1]]
               /\ last' = [unit |-> 0,
                           out |-> IF Failed(result) THEN << <<"Error", result.err>> >>
                                   ELSE <<>>,
                           changed |-> {}]
       IN Parsed(parse(threads[0].src))
    /\ UNCHANGED <<symbol_table, locals>>

(* interpreter.evaluate(result): the next statement of the program.       *)
FileStep ==
    /\ threads[0].phase = "run"
    /\ threads[0].pc <= Len(threads[0].body)
    /\ RunStatement(0, threads[0].body[threads[0].pc])

FileNext ==
    \/ ParseFile
    \/ FileStep
    \/ \E u \in Units : UnitCopy(u)
    \/ \E u \in Units : UnitStep(u)
    \/ \E u \in Units : MergeCheck(u)
    \/ \E u \in Units : MergeWrite(u)

FileSpec == FileInit /\ [][FileNext]_vars

(* -------------------- the run of a file: programs -------------------- *)

(* let x = 1; parallel { <statement> } x = 42;                            *)
LostUpdateText(stmt) ==
    <<"let", "x", "=", "1", ";", "parallel", "{">> \o stmt \o <<"}", "x", "=", "42", ";">>

LostUpdateTexts ==
    {LostUpdateText(stmt) : stmt \in {<<"print", "(", "x", ")", ";">>,
                                      <<"let", "y", "=", "2", ";">>,
                                      <<"y", "=", "2", ";">>}}

(* let f = (a) => a; parallel { <statement> } <statement>                 *)
ClosureText(stmt, then) ==
    <<"let", "f", "=", "(", "a", ")", "=>", "a", ";", "parallel", "{">> \o stmt
        \o <<"}">> \o then

CallF == <<"f", "(", "1", ")", ";">>

ClosureTexts ==
    {ClosureText(stmt, then) :
        stmt \in {<<"print", "(", "0", ")", ";">>, <<"let", "y", "=", "2", ";">>},
        then \in {CallF, <<"print", "(", "f", "(", "1", ")", ")", ";">>,
                  <<"print", "(", "0", ")", ";">> \o CallF}}

DefSetx == <<"def", "setx", "(", ")", "{", "x", "=", "42", ";", "}">>

DefGetx == <<"def", "getx", "(", ")", "{", "return", "x", ";", "}">>

DefLety == <<"def", "lety", "(", ")", "{", "let", "y", "=", "7", ";", "}">>

(* def setx() { x = 42; } def getx() { return x; }                        *)
(* <x bound or not> setx(); print(x); print(getx());                      *)
SetxText(bind) ==
    DefSetx \o DefGetx \o bind
        \o <<"setx", "(", ")", ";", "print", "(", "x", ")", ";",
              "print", "(", "getx", "(", ")", ")", ";">>

(* def lety() { let y = 7; } <y bound or not> lety(); print(y);           *)
LetyText(bind) ==
    DefLety \o bind \o <<"lety", "(", ")", ";", "print", "(", "y", ")", ";">>

CalleeTexts ==
    {SetxText(bind) : bind \in {<<"let", "x", "=", "1", ";">>, <<"x", "=", "1", ";">>,
                                <<"const", "x", "=", "1", ";">>, <<>>}}
        \cup {LetyText(bind) : bind \in {<<"let", "x", "=", "1", ";">>, <<>>}}

(* Nothing, n = null; or delete(n);                                       *)
Removals(n) == {<<>>, << n, "=", "null", ";" >>, <<"delete", "(", n, ")", ";">>}

DeclQ == <<"let", "q", "=", "1", ";">>

(* repeat c times { let q = 1; <removal> }                                *)
RepeatDeclText(c, rem) ==
    <<"repeat", Numeral(c), "times", "{">> \o DeclQ \o rem \o <<"}">>

(* let i = 0; while (i < c) { let q = 1; i = i + 1; <removal> }           *)
WhileDeclText(c, rem) ==
    <<"let", "i", "=", "0", ";", "while", "(", "i", "<", Numeral(c), ")", "{">> \o DeclQ
        \o <<"i", "=", "i", "+", "1", ";">> \o rem \o <<"}">>

(* for (i = 0; i < c; i = i + 1) { let q = 1; <removal> }                 *)
ForDeclText(c, rem) ==
    <<"for", "(", "i", "=", "0", ";", "i", "<", Numeral(c), ";",
      "i", "=", "i", "+", "1", ")", "{">> \o DeclQ \o rem \o <<"}">>

(* def lety() { let y = 7; } lety(); <removal> lety();                    *)
LetyTwiceText(rem) ==
    DefLety \o <<"lety", "(", ")", ";">> \o rem \o <<"lety", "(", ")", ";">>

RedeclareTexts ==
    {RepeatDeclText(c, rem) : c \in 0..MaxCount, rem \in Removals("q")}
        \cup {WhileDeclText(c, rem) : c \in 0..MaxCount, rem \in Removals("q")}
        \cup {ForDeclText(c, rem) : c \in 0..MaxCount, rem \in Removals("q")}
        \cup {LetyTwiceText(rem) : rem \in Removals("y")}

(* let n = c; repeat n times { n = v; print(1); }                         *)
CountWriteText(c, v) ==
    <<"let", "n", "=", Numeral(c), ";", "repeat", "n", "times", "{",
      "n", "=", Numeral(v), ";", "print", "(", "1", ")", ";", "}">>

(* let n = c; repeat n times { print(n); n = n + 1; }                     *)
CountGrowText(c) ==
    <<"let", "n", "=", Numeral(c), ";", "repeat", "n", "times", "{",
      "print", "(", "n", ")", ";", "n", "=", "n", "+", "1", ";", "}">>

CountWriteTexts ==
    {CountWriteText(c, v) : c \in 0..MaxCount, v \in 0..MaxCount}
        \cup {CountGrowText(c) : c \in 0..MaxCount}

(* Left operands of and / or, each with the object it evaluates to.       *)
LeftOperands ==
    {<<"true", BoolV(TRUE)>>, <<"false", BoolV(FALSE)>>, <<"0", IntV(0)>>, <<"1", IntV(1)>>}

LogicalLexemes == {"and", "or"}

(* Right operands that raise, each with its exception.                    *)
RaisingOperands ==
    {<< <<"u">>, "UndefinedVariable" >>, << <<"(", "1", "/", "0", ")">>, "ZeroDivisionError" >>}

(* def setx() { x = 42; } print(<left> <op> setx()); print(x);            *)
SideEffectText(l, op) ==
    DefSetx \o <<"print", "(", l, op, "setx", "(", ")", ")", ";", "print", "(", "x", ")", ";">>

(* print(<left> <op> <right>);                                            *)
LogicalText(l, op, r) == <<"print", "(", l, op>> \o r \o <<")", ";">>

(* print((1 / 0) <op> u);                                                 *)
LeftFirstText(op) == <<"print", "(", "(", "1", "/", "0", ")", op, "u", ")", ";">>

LogicalTexts ==
    {SideEffectText(l[1], op) : l \in LeftOperands, op \in LogicalLexemes}
        \cup {LogicalText(l[1], op, r[1]) :
                 l \in LeftOperands, op \in LogicalLexemes, r \in RaisingOperands}
        \cup {LogicalText(l[1], op, << r[1] >>) :
                 l \in LeftOperands, op \in LogicalLexemes, r \in LeftOperands}
        \cup {LeftFirstText(op) : op \in LogicalLexemes}

RunTexts ==
    LostUpdateTexts \cup ClosureTexts \cup CalleeTexts \cup RedeclareTexts
        \cup CountWriteTexts \cup LogicalTexts

RunInit ==
    /\ symbol_table = EmptyDict
    /\ locals = [t \in Threads |-> EmptyDict]
    /\ \E text \in RunTexts :
          threads = [t \in Threads |->
                       IF t = 0 THEN [Idle EXCEPT !.phase = "parse", !.src = text]
                       ELSE Idle]
    /\ last = [unit |-> 0, out |-> <<>>, changed |-> {}]

RunSpec == RunInit /\ [][FileNext]_vars

(* ----------------------------- properties ---------------------------- *)

AssignStmts == {s \in MainStmts \cup BlockStmts : s[1] = "assign"}

DeclareStmts == {s \in MainStmts \cup BlockStmts : s[1] = "declare"}

(* This step is thread t evaluating statement stmt.                       *)
Ran(t, stmt) ==
    /\ last'.unit = t
    /\ IF t = 0
       THEN /\ threads[0].phase = "run"
            /\ threads[0].pc <= MaxMainSteps
            /\ stmt \in MainStmts
            /\ RunStatement(0, stmt)
       ELSE /\ threads[t].phase = "run"
            /\ threads[t].pc <= Len(threads[t].body)
            /\ stmt = threads[t].body[threads[t].pc]
            /\ UnitStep(t)

Result(t, stmt) == Evaluate(stmt, Fresh(t))

Exc(kind) == <<"exc", kind>>

ConstPair(d, n) == Has(d, n) /\ IsTuple(Get(d, n)) /\ Get(d, n)[3]

LetPair(d, n) == Has(d, n) /\ IsTuple(Get(d, n)) /\ ~Get(d, n)[3]

ReturnProbes == {"fwhile", "fif", "frepeat", "ffor", "flast"}

(* C1: a call of a function whose body is a while, if, repeat or for      *)
(* holding "print(1); return 5;", followed (except in flast) by           *)
(* "print(2); return 6;", ends at the first return: its value is 5 and    *)
(* its whole output is the single line 1 (no second iteration, no         *)
(* statement after the loop or branch).                                   *)
C1_ReturnEndsTheCall ==
    [][\A f \in ReturnProbes :
          Ran(0, <<"func_call", f, <<>>>>) =>
              /\ Result(0, <<"func_call", f, <<>>>>).sig = "ok"
              /\ Result(0, <<"func_call", f, <<>>>>).val = IntV(5)
              /\ last'.out = << IntV(1) >>]_vars

(* C2: an Assign to a name whose Declare was const raises ConstViolation  *)
(* and leaves the name's entry in the local and in the global dict as it  *)
(* was; an Assign of a value to a name whose Declare was let succeeds and *)
(* a read of the name then gives that value.                              *)
C2_ConstAssignRaises ==
    [][\A t \in Threads : \A stmt \in AssignStmts :
          Ran(t, stmt) =>
              LET n == stmt[2]
                  r == Result(t, stmt)
              IN /\ ConstPair(locals[t], n) =>
                       /\ r.sig = "error"
                       /\ r.val = Exc("ConstViolation")
                       /\ r.loc = locals[t]
                       /\ symbol_table' = symbol_table
                 /\ (LetPair(locals[t], n) /\ stmt[3][1] = "number") =>
                       /\ r.sig = "ok"
                       /\ Evaluate(<<"var", n>>, r).val = IntV(stmt[3][2])]_vars

(* C3: after a successful Declare of n, or a successful Assign of a       *)
(* value other than None to n, by thread t, n is a key of t's local dict  *)
(* and of the global dict and a read through either gives the value       *)
(* written.                                                               *)
C3_WritesBothTiers ==
    [][\A t \in Threads : \A stmt \in AssignStmts \cup DeclareStmts :
          (/\ Ran(t, stmt)
           /\ Result(t, stmt).sig = "ok"
           /\ (stmt[1] = "declare" \/ Result(t, stmt).val # None)) =>
              LET n == stmt[2]
                  written == IF stmt[3][1] = "number" THEN IntV(stmt[3][2])
                             ELSE Result(t, stmt).val
              IN /\ Has(locals'[t], n)
                 /\ Has(symbol_table', n)
                 /\ Unwrap(Get(locals'[t], n)) = written
                 /\ Unwrap(Get(symbol_table', n)) = written]_vars

(* A bare (assigned) 42 under x in the main dict and in the global dict.  *)
C3_Witness ==
    /\ last.unit = 0
    /\ "x" \in last.changed
    /\ Has(locals[0], "x") /\ Get(locals[0], "x") = IntV(42)
    /\ Has(symbol_table, "x") /\ Get(symbol_table, "x") = IntV(42)

MainCanRun == threads[0].phase = "run" /\ threads[0].pc <= MaxMainSteps

(* C4: evaluating a Parallel node gives None at once and runs nothing of  *)
(* the block (nothing printed, no dict written, one thread started with   *)
(* the block as its body); and while the main thread has a statement left *)
(* it can run it whatever the position of the threads it started: before  *)
(* their first statement, between two, after the last.                    *)
C4_SpawnerDoesNotWait ==
    /\ \A t \in Threads : \A b \in Blocks :
          LET r == Evaluate(<<"parallel", b>>, Fresh(t))
          IN /\ r.sig = "ok"
             /\ r.val = None
             /\ r.loc = locals[t]
             /\ r.glob = symbol_table
             /\ r.out = <<>>
             /\ Len(r.spawned) = 1
             /\ r.spawned[1].body = b
    /\ MainCanRun => ENABLED MainStep

(* The main thread has started one thread and then, as the last step so   *)
(* far, run its next statement, with the thread's block of two statements *)
(* between its first and its second statement.                            *)
C4_Witness ==
    /\ last.unit = 0
    /\ threads[0].phase = "run"
    /\ threads[0].pc = 3
    /\ \E u \in Units :
          /\ threads[u].phase = "run"
          /\ Len(threads[u].body) = 2
          /\ threads[u].pc = 2
          /\ \A v \in Units \ {u} : threads[v].phase = "idle"

LetZ42 == <<"declare", "z", <<"number", 42>>, FALSE>>

(* Thread u has been started by the main thread for the block             *)
(* { let z = 42; } and z is a key of no dict it can see.                  *)
SpawnedLetZ(u) ==
    /\ threads[u].phase = "start"
    /\ threads[u].body = << LetZ42 >>
    /\ threads[u].src = <<"live", 0>>
    /\ ~Has(symbol_table, "z")
    /\ ~Has(locals[0], "z")

ReadOfZ == Evaluate(<<"var", "z">>, Fresh(0))

(* The last step was the main thread's and changed the global entry of z. *)
MainWroteZ == last.unit = 0 /\ "z" \in last.changed

(* C5: from the moment the main thread has started { let z = 42; } with z *)
(* unbound, a top-level read of z raises UndefinedVariable, and, with the *)
(* threads scheduled fairly, either the main thread itself writes z or    *)
(* from some point on a top-level read of z gives 42 for good (the other  *)
(* threads write nothing but 42 to z).                                    *)
C5_EventuallyBindsZ ==
    []((\E u \in Units : SpawnedLetZ(u)) =>
          /\ ReadOfZ.val = Exc("UndefinedVariable")
          /\ (<>[](ReadOfZ.sig = "ok" /\ ReadOfZ.val = IntV(42))) \/ <>MainWroteZ)

(* A thread has finished and its merge has left its (42, False) under z   *)
(* in the global dict, which the main dict does not hold.                 *)
C5_Witness ==
    /\ last.unit \in Units
    /\ threads[last.unit].phase = "done"
    /\ "z" \in last.changed
    /\ Has(symbol_table, "z")
    /\ Get(symbol_table, "z") = MkTuple(IntV(42), FALSE)
    /\ ~Has(locals[0], "z")
    /\ ReadOfZ.val = IntV(42)

(* C6: the dict a thread starts with (the copy it takes) equals the dict  *)
(* of its spawner as it was when the Parallel node was evaluated, and a   *)
(* step of a thread leaves the dict of the main thread as it was.         *)
C6_SnapshotAtSpawn ==
    [][\A u \in Units :
          /\ (threads[u].phase = "start" /\ last'.unit = u) =>
                 locals'[u] = threads[u].seen
          /\ last'.unit = u => locals'[0] = locals[0]]_vars

(* C7: when a thread ends its merge (and so its block, without error),    *)
(* every key of its dict is a key of the global dict, under which a read  *)
(* finds the value it finds in the thread's dict.                         *)
C7_MergeBindsEveryName ==
    [][\A u \in Units :
          (threads[u].phase = "merge" /\ threads'[u].phase = "done") =>
              \A k \in Keys(locals[u]) :
                  /\ Has(symbol_table', k)
                  /\ Unwrap(Get(symbol_table', k)) = Unwrap(Get(locals[u], k))]_vars

(* C7 as the code has it: the merge takes the items of the thread's dict  *)
(* one by one; an item whose key is a key of the global dict when looked  *)
(* up is then written, and right after that write the global dict holds   *)
(* the thread's entry under the key; an item whose key is not a key of    *)
(* the global dict when looked up is passed over, the global dict left as *)
(* it is.                                                                 *)
C7_MergeOverwritesBound ==
    [][\A u \in Units :
          (threads[u].phase = "merge" /\ last'.unit = u) =>
              LET key == locals[u][threads[u].mi][1]
                  value == locals[u][threads[u].mi][2]
                  next == AtItem(threads[u], locals[u], threads[u].mi + 1)
              IN IF threads[u].mchk
                 THEN /\ Has(symbol_table', key)
                      /\ Get(symbol_table', key) = value
                      /\ \A k \in Keys(symbol_table) \ {key} :
                            Has(symbol_table', k)
                                /\ Get(symbol_table', k) = Get(symbol_table, k)
                      /\ threads'[u].phase = next.phase
                      /\ threads'[u].mi = next.mi
                 ELSE /\ symbol_table' = symbol_table
                      /\ IF Has(symbol_table, key)
                         THEN /\ threads'[u].phase = "merge"
                              /\ threads'[u].mchk
                              /\ threads'[u].mi = threads[u].mi
                         ELSE /\ threads'[u].phase = next.phase
                              /\ threads'[u].mi = next.mi
                              /\ ~threads'[u].mchk]_vars

(* A merge has just put a thread's (val, is_const) pair under a key of    *)
(* the global dict.                                                       *)
C7_Witness ==
    /\ last.unit \in Units
    /\ \E k \in last.changed :
          /\ Has(symbol_table, k)
          /\ IsTuple(Get(symbol_table, k))

(* C8: in the step in which a statement of thread u raises, the error is  *)
(* reported and only u ends: every other thread keeps its position and    *)
(* its dict; a thread ends in error only by a statement of its own; and   *)
(* every thread with something left to run can run it, whichever threads  *)
(* have ended in error.                                                   *)
C8_ErrorEndsOnlyTheUnit ==
    [][/\ \A u \in Units :
             (threads[u].phase = "run" /\ threads'[u].phase = "error") =>
                 /\ last'.unit = u
                 /\ Len(last'.out) > 0
                 /\ last'.out[Len(last'.out)][1] = "Error in parallel execution"
                 /\ \A t \in Threads \ {u} :
                       /\ threads'[t] = threads[t]
                       /\ locals'[t] = locals[t]
       /\ \A t \in Threads :
             (threads[t].phase # "error" /\ threads'[t].phase = "error") =>
                 last'.unit = t
       /\ MainCanRun => ENABLED MainStep
       /\ \A v \in Units :
             threads[v].phase \in {"start", "run", "merge"} => ENABLED UnitAct(v)]_vars

(* One thread has ended in error and another thread has taken a step      *)
(* since, and the main thread has not ended in error.                     *)
C8_Witness ==
    \E u, v \in Units :
        /\ u # v
        /\ threads[u].phase = "error"
        /\ last.unit = v
        /\ threads[v].phase \in {"run", "merge", "done"}
        /\ threads[0].phase = "run"

NullAssigns == {s \in AssignStmts : s[3][1] = "null"}

(* C10: an Assign of None to a name that is not const succeeds and takes  *)
(* the name out of the local and of the global dict: a read of the name   *)
(* then raises UndefinedVariable and a Declare of it then succeeds.       *)
C10_NullAssignUnbinds ==
    [][\A t \in Threads : \A stmt \in NullAssigns :
          (/\ Ran(t, stmt)
           /\ ~ConstPair(locals[t], stmt[2])
           /\ ~ConstPair(symbol_table, stmt[2])) =>
              LET n == stmt[2]
                  r == Result(t, stmt)
              IN /\ r.sig = "ok"
                 /\ ~Has(locals'[t], n)
                 /\ ~Has(symbol_table', n)
                 /\ Evaluate(<<"var", n>>, r).val = Exc("UndefinedVariable")
                 /\ Evaluate(<<"declare", n, <<"number", 1>>, FALSE>>, r).sig = "ok"]_vars

(* x = null by the main thread has just taken a bound x out of both       *)
(* dicts.                                                                 *)
C10_Witness ==
    /\ last.unit = 0
    /\ threads[0].phase = "run"
    /\ "x" \in last.changed
    /\ ~Has(symbol_table, "x")
    /\ ~Has(locals[0], "x")

(* This step is the main thread evaluating the probe stmt.                *)
Probed(stmt) ==
    /\ threads[0].phase = "run"
    /\ threads[0].pc <= MaxProbes
    /\ stmt \in Probes
    /\ RunStatement(0, stmt)

(* Name n is bound in dict d to an int (not a bool).                      *)
IntIn(d, n) == Has(d, n) /\ Unwrap(Get(d, n))[1] = "int"

CountOf(stmt) == Evaluate(stmt[2], Fresh(0))

(* C12: a Repeat whose count evaluates to a negative int raises           *)
(* RangeError, one whose count evaluates to anything that is not an int   *)
(* (a str, a bool, a float, ...) raises TypeError, and in both cases      *)
(* nothing is printed and no dict changes.                                *)
C12_BadCountRaises ==
    [][\A stmt \in RepeatProbes :
          (Probed(stmt) /\ CountOf(stmt).sig = "ok") =>
              /\ (CountOf(stmt).val[1] = "int" /\ CountOf(stmt).val[2] < 0) =>
                     /\ Result(0, stmt).val = Exc("RangeError")
                     /\ last'.out = << <<"Error", Exc("RangeError")>> >>
                     /\ locals'[0] = locals[0]
                     /\ symbol_table' = symbol_table
              /\ CountOf(stmt).val[1] # "int" =>
                     /\ Result(0, stmt).val = Exc("TypeError")
                     /\ last'.out = << <<"Error", Exc("TypeError")>> >>
                     /\ locals'[0] = locals[0]
                     /\ symbol_table' = symbol_table]_vars

(* The probes that assign to, or print, an element of a.                  *)
ProbesOfA ==
    {stmt \in ArrayProbes :
        \/ stmt[1] = "array_assign" /\ stmt[2] = "a"
        \/ stmt[1] = "print" /\ stmt[2][2] = <<"var", "a">>}

(* The index expression of such a probe.                                  *)
IndexExpr(stmt) == IF stmt[1] = "array_assign" THEN stmt[3] ELSE stmt[2][3]

(* C13: with a bound by let to a list of length n and an index that       *)
(* evaluates to i: if i is an int with 0 <= i < n, a[i] = 9 succeeds, a   *)
(* read of a[i] then gives 9, the other elements and the length are as    *)
(* before, and print(a[i]) prints the element and changes nothing; if i   *)
(* is an int out of that range or is not an int, both raise an error and  *)
(* no dict changes.                                                       *)
C13_IndexChecked ==
    [][\A stmt \in ProbesOfA :
          LET index == Evaluate(IndexExpr(stmt), Fresh(0))
              r == Result(0, stmt)
              before == Unwrap(Get(locals[0], "a"))[2]
              after == Unwrap(Get(locals'[0], "a"))[2]
              i == index.val[2]
          IN (/\ Probed(stmt)
              /\ LetPair(locals[0], "a")
              /\ Unwrap(Get(locals[0], "a"))[1] = "list"
              /\ index.sig = "ok") =>
                 IF index.val[1] = "int" /\ 0 <= i /\ i < Len(before)
                 THEN /\ r.sig = "ok"
                      /\ Len(after) = Len(before)
                      /\ IF stmt[1] = "array_assign"
                         THEN /\ Evaluate(<<"array_access", <<"var", "a">>, IndexExpr(stmt)>>,
                                          r).val = IntV(9)
                              /\ after[i + 1] = IntV(9)
                              /\ \A j \in 1..Len(before) : j # i + 1 => after[j] = before[j]
                         ELSE /\ last'.out = << before[i + 1] >>
                              /\ after = before
                 ELSE /\ r.sig = "error"
                      /\ locals'[0] = locals[0]
                      /\ symbol_table' = symbol_table]_vars

(* The parameters of the function or method the probe stmt calls.         *)
ParamsOf(stmt) ==
    IF stmt[1] = "method_call" THEN MethodDef("P", stmt[3])[3]
    ELSE IF stmt[2] = "add" THEN Get(symbol_table, "add")[2]
    ELSE function_table[stmt[2]][3]

ArgsOf(stmt) == IF stmt[1] = "method_call" THEN stmt[4] ELSE stmt[3]

(* What the probe stmt calls is there to be called.                       *)
CalleeBound(stmt) ==
    IF stmt[1] = "method_call"
    THEN Has(locals[0], "p") /\ Unwrap(Get(locals[0], "p")) = Instance("P")
    ELSE stmt[2] = "add" =>
            Has(symbol_table, "add") /\ Get(symbol_table, "add")[1] = "closure"

(* The value of the body for the arguments 1, 2, ...: the sum of the two  *)
(* arguments for (x, y) => x + y and for two(a, b), the argument plus the *)
(* k of the defining dict for y => y + k, 7 for get(), 42 for setx(),     *)
(* None for spawn(p).                                                     *)
BodyValue(stmt) ==
    CASE stmt[1] = "method_call" /\ stmt[3] = "get" -> IntV(7)
      [] stmt[1] = "method_call" /\ stmt[3] = "two" -> IntV(1 + 2)
      [] stmt[2] = "setx" -> IntV(42)
      [] stmt[2] = "spawn" -> None
      [] stmt[2] = "add" /\ ParamsOf(stmt) = <<"x", "y">> -> IntV(1 + 2)
      [] OTHER -> IntV(1 + Unwrap(Get(locals[0], "k"))[2])

(* C14: a call of a named function, of a method or of an arrow function   *)
(* with as many arguments as parameters succeeds with the value of the    *)
(* body (for (x, y) => x + y called with 1 and 2: 3); with any other      *)
(* number of arguments it raises ArityMismatch, prints nothing, changes   *)
(* no dict and starts no thread.                                          *)
C14_ArityChecked ==
    [][\A stmt \in CallProbes :
          (Probed(stmt) /\ CalleeBound(stmt)) =>
              IF Len(ArgsOf(stmt)) = Len(ParamsOf(stmt))
              THEN /\ Result(0, stmt).sig = "ok"
                   /\ Result(0, stmt).val = BodyValue(stmt)
              ELSE /\ Result(0, stmt).val = Exc("ArityMismatch")
                   /\ last'.out = << <<"Error", Exc("ArityMismatch")>> >>
                   /\ locals' = locals
                   /\ symbol_table' = symbol_table
                   /\ \A u \in Units : threads'[u] = threads[u]]_vars

(* The dict in which the body of the closure bound to add runs when add   *)
(* is called by the main thread with the arguments 1, 2, ...              *)
BodyState(f) ==
    Enter(Fresh(0), FuncEnv(f, [i \in 1..Len(f[2]) |-> IntV(i)], Fresh(0)))

(* C15: when the main thread calls the arrow function bound to add with   *)
(* the arguments 1, 2, ..., a read of the i-th parameter in the body      *)
(* gives i, whatever the dict the function was made in holds, and a read  *)
(* of any other name of that dict gives what that dict holds.             *)
C15_ParameterHidesOuter ==
    [][\A stmt \in CallProbes :
          (/\ Probed(stmt)
           /\ stmt[1] = "func_call"
           /\ stmt[2] = "add"
           /\ CalleeBound(stmt)
           /\ Len(ArgsOf(stmt)) = Len(ParamsOf(stmt))) =>
              LET f == Get(symbol_table, "add")
              IN /\ \A i \in 1..Len(f[2]) :
                       Evaluate(<<"var", f[2][i]>>, BodyState(f)).val = IntV(i)
                 /\ \A n \in Keys(locals[0]) :
                       (\A i \in 1..Len(f[2]) : f[2][i] # n) =>
                           Evaluate(<<"var", n>>, BodyState(f)).val
                               = Unwrap(Get(locals[0], n))]_vars

(* The probes that print a name, a[u] or u[0], and the names they read,   *)
(* in the order in which they read them.                                  *)
VarProbes ==
    ReadProbes \cup {Show(<<"array_access", <<"var", "a">>, <<"var", "u">>>>),
                     Show(<<"array_access", <<"var", "u">>, <<"number", 0>>>>)}

ReadsOf(stmt) ==
    IF stmt[2][1] = "var" THEN << stmt[2][2] >>
    ELSE IF stmt[2][3][1] = "var" THEN << stmt[2][2][2], stmt[2][3][2] >>
    ELSE << stmt[2][2][2] >>

Unbound(n) == ~Has(locals[0], n) /\ ~Has(symbol_table, n)

(* What the dicts hold for n, the local dict first.                       *)
LocalFirst(n) ==
    IF Has(locals[0], n) THEN Unwrap(Get(locals[0], n)) ELSE Unwrap(Get(symbol_table, n))

OnlyErrorReported == \A i \in 1..Len(last.out) : last.out[i][1] = "Error"

(* Nothing of the program has been evaluated: nothing printed, no         *)
(* binding, no parallel unit started.                                     *)
NothingEvaluated ==
    /\ OnlyErrorReported
    /\ symbol_table = EmptyDict
    /\ locals[0] = EmptyDict
    /\ \A u \in Units : threads[u] = Idle

(* C17: in the run of a file whose text contains a lexical or grammar     *)
(* error (a character that starts no token, a declaration without a name, *)
(* a closing brace that closes nothing), no statement is ever evaluated:  *)
(* no output but the error report, no binding, no parallel unit.          *)
C17_ErrorAbortsBeforeExecution ==
    threads[0].src \in ErrorTexts => NothingEvaluated

(* ------------------------------ C18 ----------------------------------- *)

(* The statements of the program that parse(text) gives.                  *)
StatementsOf(text) == parse(text).node[2]

(* C18: a simple statement (declaration, assignment, print, return, bare  *)
(* expression) at the end of the text, before a closing brace or before   *)
(* the next statement parses with its SEMICOLON and without it, and the   *)
(* program parsed is the same in both forms.                              *)
C18_SemicolonNotRequired ==
    [][\A simple \in SimpleTexts, place \in Places, semicolon \in BOOLEAN :
          (threads[0].phase = "parse" /\ threads[0].src = Placed(simple, place, semicolon))
              => /\ threads'[0].phase = "run"
                 /\ ~Failed(parse(Placed(simple, place, TRUE)))
                 /\ threads'[0].body = StatementsOf(Placed(simple, place, TRUE))]_vars

(* ------------------------------ C19 ----------------------------------- *)

(* The count expression parsed on its own.                                *)
CountNode(count) == expression(NewParser(count)).node

(* The program of RepeatText with Repeat(e, body) for the count e.        *)
RepeatProgram(count) ==
    StatementsOf(<<"let", "n", "=", "1", ";">>)
        \o << <<"repeat", CountNode(count),
                StatementsOf(<<"print", "(", "n", ")", ";">>)>> >>

(* C19: for every count expression e (a literal, a variable, a            *)
(* parenthesized expression, a binary expression), repeat e times         *)
(* { body } parses to Repeat(e, body), and the text with * in place of    *)
(* the keyword times is a parse error.                                    *)
C19_TimesEndsCount ==
    [][\A count \in CountTexts :
          /\ (threads[0].phase = "parse" /\ threads[0].src = RepeatText(count, "times"))
                => /\ threads'[0].phase = "run"
                   /\ threads'[0].body = RepeatProgram(count)
          /\ (threads[0].phase = "parse" /\ threads[0].src = RepeatText(count, "*"))
                => threads'[0].phase = "error"]_vars

(* ------------------------------ C20 ----------------------------------- *)

(* C20: in a method called on an instance made by new, this is that       *)
(* instance: the file  class Q { me() { return this; } }  let q = new     *)
(* Q();  print(q.me());  parses, and its print statement prints the       *)
(* instance of Q bound to q.                                              *)
C20_ThisIsTheInstance ==
    [][threads[0].src = ThisText =>
          /\ threads[0].phase = "parse" => threads'[0].phase = "run"
          /\ (threads[0].phase = "run" /\ threads[0].pc = 3) =>
                /\ Has(locals'[0], "q")
                /\ Get(locals'[0], "q") = Instance("Q")
                /\ last'.out = << Instance("Q") >>]_vars

(* ------------------- a file that prints one expression ---------------- *)

BinaryLexemes == {"or", "and", "==", "!=", "<", ">", "<=", ">=", "+", "-", "*", "/"}

(* a op b op c for number literals a, b, c and binary operators           *)
ExprTexts ==
    {<<Numeral(a), op1, Numeral(b), op2, Numeral(c)>> :
        a \in 0..MaxOperand, b \in 0..MaxOperand, c \in 0..MaxOperand,
        op1 \in BinaryLexemes, op2 \in BinaryLexemes}

(* print(<expression>);                                                   *)
PrintOf(e) == <<"print", "(">> \o e \o <<")", ";">>

(* Operands of +, each with the object it evaluates to: numbers (ints and *)
(* the float of 1 / 2), strings, Booleans.                                *)
PlusOperands ==
    {<< <<Numeral(n)>>, IntV(n) >> : n \in 0..MaxOperand}
        \cup {<< <<"(", "1", "/", "2", ")">>, FloatV(1, 2) >>,
              << <<"\"a\"">>, StrV("a") >>, << <<"\"hi\"">>, StrV("hi") >>,
              << <<"true">>, BoolV(TRUE) >>, << <<"false">>, BoolV(FALSE) >>}

PlusText(x, y) == x[1] \o <<"+">> \o y[1]

PlusTexts == {PlusText(x, y) : x \in PlusOperands, y \in PlusOperands}

Printed(text) == SubSeq(text, 3, Len(text) - 2)

ExprInit ==
    /\ symbol_table = EmptyDict
    /\ locals = [t \in Threads |-> EmptyDict]
    /\ \E e \in ExprTexts \cup PlusTexts :
          threads = [t \in Threads |->
                       IF t = 0 THEN [Idle EXCEPT !.phase = "parse", !.src = PrintOf(e)]
                       ELSE Idle]
    /\ last = [unit |-> 0, out |-> <<>>, changed |-> {}]

ExprNext ==
    \/ ParseFile
    \/ FileStep

ExprSpec == ExprInit /\ [][ExprNext]_vars

(* ----------------------- the lexer on characters ---------------------- *)

(* A Lexer object is the record [text, pos, lineno, current_char]: text a *)
(* sequence of characters, pos the index of current_char in it (from 1),  *)
(* current_char "" where Python has None.  A Token is <<type, value,      *)
(* lineno>>.  A Lexer method that returns a value gives the record [lx,   *)
(* val, err]: the lexer after the call, the value returned, and the       *)
(* message of the exception raised, None if none.                         *)

NewLexer(text) ==
    [text |-> text, pos |-> 1, lineno |-> 1,
     current_char |-> IF 1 <= Len(text) THEN text[1] ELSE ""]

IsSpace(c) == c \in {" ", "\n"}

IsDigit(c) == c \in {"0", "1", "2", "3", "7", "9"}

IsAlpha(c) == c \in {"a", "b", "f", "n", "x"}

advance(lx) ==
    [lx EXCEPT !.lineno = IF lx.current_char = "\n" THEN @ + 1 ELSE @,
               !.pos = @ + 1,
               !.current_char = IF lx.pos + 1 <= Len(lx.text) THEN lx.text[lx.pos + 1]
                                ELSE ""]

RECURSIVE skip_whitespace(_)
skip_whitespace(lx) ==
    IF lx.current_char # "" /\ IsSpace(lx.current_char) THEN skip_whitespace(advance(lx))
    ELSE lx

(* Lexer.skip_comment after the two slashes                               *)
RECURSIVE skip_line(_)
skip_line(lx) ==
    IF lx.current_char # "" /\ lx.current_char # "\n" THEN skip_line(advance(lx)) ELSE lx

skip_comment(lx) == skip_line(advance(advance(lx)))

peek_char(lx) == IF lx.pos + 1 <= Len(lx.text) THEN lx.text[lx.pos + 1] ELSE ""

Returned(lx, val) == [lx |-> lx, val |-> val, err |-> None]

LexerError(lx, message) ==
    [lx |-> lx, val |-> None, err |-> <<"Lexer error", lx.lineno, message>>]

RECURSIVE get_number_from(_, _)
get_number_from(lx, result) ==
    IF lx.current_char # "" /\ IsDigit(lx.current_char)
    THEN get_number_from(advance(lx), 10 * result + Lookup(Numerals, lx.current_char))
    ELSE Returned(lx, result)

get_number(lx) == get_number_from(lx, 0)

RECURSIVE get_string_from(_, _, _)
get_string_from(lx, quote_char, result) ==
    IF lx.current_char # "" /\ lx.current_char # quote_char
    THEN IF lx.current_char = "\\" /\ peek_char(lx) = quote_char
         THEN get_string_from(advance(advance(lx)), quote_char, result \o quote_char)
         ELSE get_string_from(advance(lx), quote_char, result \o lx.current_char)
    ELSE IF lx.current_char # quote_char
    THEN LexerError(lx, "Unterminated string literal")
    ELSE Returned(advance(lx), result)

get_string(lx) == get_string_from(advance(lx), lx.current_char, "")

RECURSIVE get_identifier_from(_, _)
get_identifier_from(lx, result) ==
    IF lx.current_char # "" /\ (IsAlpha(lx.current_char) \/ IsDigit(lx.current_char)
                                  \/ lx.current_char = "_")
    THEN get_identifier_from(advance(lx), result \o lx.current_char)
    ELSE Returned(lx, result)

get_identifier(lx) == get_identifier_from(lx, "")

(* Token(type, self.get_...(), self.lineno): lineno is read after the     *)
(* call that consumed the token.                                          *)
TokenAfter(type, got) ==
    IF got.err # None THEN got ELSE Returned(got.lx, <<type, got.val, got.lx.lineno>>)

WordToken(got) ==
    IF InTable(Reserved, got.val)
    THEN IF got.val \in {"true", "false"}
         THEN Returned(got.lx, <<Lookup(Reserved, got.val), got.val = "true", got.lx.lineno>>)
         ELSE Returned(got.lx, <<Lookup(Reserved, got.val), got.val, got.lx.lineno>>)
    ELSE Returned(got.lx, <<"ID", got.val, got.lx.lineno>>)

(* Lexer.get_next_token on the characters of the text                     *)
RECURSIVE next_token(_)
next_token(lx) ==
    LET c == lx.current_char
        two == c \o peek_char(lx)
    IN IF c = "" THEN Returned(lx, <<"EOF", None, None>>)
       ELSE IF IsSpace(c) THEN next_token(skip_whitespace(lx))
       ELSE IF two = "//" THEN next_token(skip_comment(lx))
       ELSE IF c \in {"\"", "'"} THEN TokenAfter("STRING", get_string(lx))
       ELSE IF IsDigit(c) THEN TokenAfter("NUMBER", get_number(lx))
       ELSE IF IsAlpha(c) \/ c = "_" THEN WordToken(get_identifier(lx))
       ELSE IF two \in {"==", "!=", ">=", "<=", "->", "=>"}
       THEN Returned(advance(advance(lx)),
                     <<Lookup(Operators, two),
                       IF two = "->" THEN "=>" ELSE two, lx.lineno>>)
       ELSE IF InTable(Operators, c)
       THEN Returned(advance(lx), <<Lookup(Operators, c), c, lx.lineno>>)
       ELSE LexerError(lx, "Invalid token")

(* The characters of the texts: a letter, a digit, a quote, a newline, a  *)
(* space, a semicolon.                                                    *)
Chars == {"a", "1", "\"", "\n", " ", ";"}

CharTexts == UNION {[1..n -> Chars] : n \in 0..MaxText}

(* The token stream of run_file: the Lexer made for the text, nothing     *)
(* read yet.                                                              *)
LexInit ==
    /\ symbol_table = EmptyDict
    /\ locals = [t \in Threads |-> EmptyDict]
    /\ \E text \in CharTexts :
          threads = [t \in Threads |->
                       IF t = 0 THEN [phase |-> "lex", lexer |-> NewLexer(text)]
                       ELSE Idle]
    /\ last = [unit |-> 0, out |-> <<>>, changed |-> {}]

(* token = lexer.get_next_token(); the loop ends at EOF, an exception     *)
(* ends the run and is printed.                                           *)
LexStep ==
    /\ threads[0].phase = "lex"
    /\ LET Got(got) ==
               /\ threads' =
                    [threads EXCEPT ![0] =
                        [phase |-> IF got.err # None THEN "error"
                                   ELSE IF got.val[1] = "EOF" THEN "done" ELSE "lex",
                         lexer |-> got.lx]]
               /\ last' = [unit |-> 0,
                           out |-> IF got.err # None THEN << <<"Error", got.err>> >>
                                   ELSE << got.val >>,
                           changed |-> {}]
       IN Got(next_token(threads[0].lexer))
    /\ UNCHANGED <<symbol_table, locals>>

LexSpec == LexInit /\ [][LexStep]_vars

(* ------------------------------ C21 ----------------------------------- *)

(* The reference: operators grouped by the precedence order or < and <    *)
(* equality < relational < additive < multiplicative, to the left within  *)
(* a level.  An expression splits at the rightmost of its operators of    *)
(* the lowest precedence.                                                 *)
Precedence(op) ==
    CASE op = "or" -> 1
      [] op = "and" -> 2
      [] op \in {"==", "!="} -> 3
      [] op \in {"<", ">", "<=", ">="} -> 4
      [] op \in {"+", "-"} -> 5
      [] OTHER -> 6

OperatorsAt(e) == {i \in 1..Len(e) : e[i] \in BinaryLexemes}

SplitAt(e) ==
    CHOOSE i \in OperatorsAt(e) :
        \A j \in OperatorsAt(e) :
            \/ Precedence(e[i]) < Precedence(e[j])
            \/ Precedence(e[i]) = Precedence(e[j]) /\ j <= i

RECURSIVE Reference(_, _)
Reference(e, st) ==
    IF Len(e) = 1 THEN Ok(st, IntV(Lookup(Numerals, e[1])))
    ELSE LET Applied(l, r) ==
                 IF l.sig # "ok" THEN l
                 ELSE IF r.sig # "ok" THEN r
                 ELSE ApplyBinary(e[SplitAt(e)], l.val, r.val, st)
         IN Applied(Reference(SubSeq(e, 1, SplitAt(e) - 1), st),
                    Reference(SubSeq(e, SplitAt(e) + 1, Len(e)), st))

(* What the run of print(e); writes when e has the value, or raises the   *)
(* exception, of the reference.                                           *)
ReferenceOutput(e) ==
    LET Written(ref) == IF ref.sig = "ok" THEN << ref.val >> ELSE << <<"Error", ref.val>> >>
    IN Written(Reference(e, Fresh(0)))

(* C21: an expression of number literals and the binary operators or,     *)
(* and, ==, !=, <, >, <=, >=, +, -, *, / parses, and its evaluation gives *)
(* what the reference gives that groups the operators by precedence       *)
(* (or < and < equality < relational < additive < multiplicative) and to  *)
(* the left within a level.                                               *)
C21_PrecedenceAndLeftAssociativity ==
    [][Printed(threads[0].src) \in ExprTexts =>
          /\ threads[0].phase = "parse" => threads'[0].phase = "run"
          /\ threads[0].phase = "run" =>
                last'.out = ReferenceOutput(Printed(threads[0].src))]_vars

(* 1 + 1 * 0 has been printed as 1 (not 0), 1 - 1 - 1 as -1 (not 1).      *)
C21_Witness ==
    /\ threads[0].pc = 2
    /\ \/ threads[0].src = PrintOf(<<"1", "+", "1", "*", "0">>) /\ last.out = << IntV(1) >>
       \/ threads[0].src = PrintOf(<<"1", "-", "1", "-", "1">>)
            /\ last.out = << IntV(0 - 1) >>

(* ------------------------------ C22 ----------------------------------- *)

IsNumberObject(obj) == obj[1] \in {"int", "float"}

(* The sum of two numbers: an int of two ints, a float otherwise.         *)
NumericSum(x, y) ==
    IF x[1] = "int" /\ y[1] = "int" THEN IntV(x[2] + y[2])
    ELSE FloatV(Numer(x) * Denom(y) + Numer(y) * Denom(x), Denom(x) * Denom(y))

(* C22: + of two numbers gives their sum, + of two strings their          *)
(* concatenation, and + of a string with a number or a Boolean, in either *)
(* order, raises a type error.                                            *)
C22_PlusTypeRules ==
    [][\A x \in PlusOperands, y \in PlusOperands :
          (threads[0].phase = "run" /\ threads[0].src = PrintOf(PlusText(x, y))) =>
             /\ (IsNumberObject(x[2]) /\ IsNumberObject(y[2])) =>
                   last'.out = << NumericSum(x[2], y[2]) >>
             /\ (x[2][1] = "str" /\ y[2][1] = "str") =>
                   last'.out = << StrV(x[2][2] \o y[2][2]) >>
             /\ \/ x[2][1] = "str" /\ y[2][1] \in {"int", "float", "bool"}
                \/ y[2][1] = "str" /\ x[2][1] \in {"int", "float", "bool"}
                => /\ last'.out = << <<"Error", <<"exc", "TypeError">>>> >>
                   /\ threads'[0].phase = "error"]_vars

(* print(true + "a"); has ended in a type error and print("a" + "hi");    *)
(* has printed ahi.                                                       *)
C22_Witness ==
    \/ /\ threads[0].src = PrintOf(<<"true", "+", "\"a\"">>)
       /\ threads[0].phase = "error"
       /\ last.out = << <<"Error", <<"exc", "TypeError">>>> >>
    \/ /\ threads[0].src = PrintOf(<<"\"a\"", "+", "\"hi\"">>)
       /\ threads[0].pc = 2
       /\ last.out = << StrV("ahi") >>

(* ------------------------------ C23 ----------------------------------- *)

(* The 1-based number of the line on which the character at index p of    *)
(* the text stands.                                                       *)
LineOf(text, p) == 1 + Cardinality({i \in 1..(p - 1) : text[i] = "\n"})

(* The lexer has a token to read: a character that is no white space.     *)
HasToken(lx) == \E p \in lx.pos..Len(lx.text) : ~IsSpace(lx.text[p])

(* The index of the first character of the token read next.               *)
TokenStart(lx) ==
    CHOOSE p \in lx.pos..Len(lx.text) :
        /\ ~IsSpace(lx.text[p])
        /\ \A i \in lx.pos..(p - 1) : IsSpace(lx.text[i])

(* C23: every token carries the number of the line on which its first     *)
(* character stands, a string literal that contains newlines too, and the *)
(* error for an unterminated string reports the line on which the string  *)
(* started.                                                               *)
C23_TokenCarriesStartLine ==
    [][(threads[0].phase = "lex" /\ HasToken(threads[0].lexer)) =>
          LET lx == threads[0].lexer
              line == LineOf(lx.text, TokenStart(lx))
          IN IF threads'[0].phase = "error"
             THEN last'.out[1][2][2] = line
             ELSE last'.out[1][3] = line]_vars

(* ------------------------------ C24 ----------------------------------- *)

(* Texts whose parse takes and restores checkpoints: parenthesized        *)
(* expressions, array assignments and array accesses, with line breaks    *)
(* inside the part that is read twice.                                    *)
InnerExprs ==
    {<<"1">>, <<"x">>, <<"x", "+", "1">>, <<"a", "[", "1", "]">>, <<"(", "x", ")">>}

Break(n) == [i \in 1..n |-> "\n"]

Breaks == 0..MaxBreaks

Tails == {<<>>, <<"+", "1">>}

(* ( e ) ;   and   ( e ) + 1 ;                                            *)
ParenText(e, m, n, tail) ==
    <<"(">> \o Break(m) \o e \o Break(n) \o <<")">> \o tail \o <<";">>

(* ( x ) => x ;                                                           *)
ArrowText(m, n) == <<"(">> \o Break(m) \o <<"x">> \o Break(n) \o <<")", "=>", "x", ";">>

(* a [ i ] = v ;                                                          *)
ArrayAssignText(i, v, m, n) ==
    <<"a">> \o Break(m) \o <<"[">> \o i \o Break(n) \o <<"]", "=">> \o v \o <<";">>

(* a [ i ] ;                                                              *)
ArrayAccessText(i, m, n) ==
    <<"a">> \o Break(m) \o <<"[">> \o i \o Break(n) \o <<"]", ";">>

(* a [ i $  : the tentative parse raises                                  *)
BrokenIndexText(i, m) == <<"a">> \o Break(m) \o <<"[">> \o i \o <<"$">>

CursorTexts ==
    {ParenText(e, m, n, tail) : e \in InnerExprs, m \in Breaks, n \in Breaks, tail \in Tails}
        \cup {ArrowText(m, n) : m \in Breaks, n \in Breaks}
        \cup {ArrayAssignText(i, v, m, n) :
                 i \in InnerExprs, v \in InnerExprs, m \in Breaks, n \in Breaks}
        \cup {ArrayAccessText(i, m, n) : i \in InnerExprs, m \in Breaks, n \in Breaks}
        \cup {BrokenIndexText(i, m) : i \in InnerExprs, m \in Breaks}

(* lexer = Lexer(text)                                                    *)
CursorInit ==
    /\ symbol_table = EmptyDict
    /\ locals = [t \in Threads |-> EmptyDict]
    /\ \E text \in CursorTexts :
          threads = [t \in Threads |->
                       IF t = 0 THEN [phase |-> "text", src |-> text, parser |-> None]
                       ELSE Idle]
    /\ last = [unit |-> 0, out |-> <<>>, changed |-> {}]

(* parser = Parser(lexer)                                                 *)
MakeParser ==
    /\ threads[0].phase = "text"
    /\ threads' = [threads EXCEPT ![0] = [@ EXCEPT !.phase = "parser",
                                                   !.parser = NewParser(threads[0].src)]]
    /\ UNCHANGED <<symbol_table, locals, last>>

(* result = parser.parse()                                                *)
ParseText ==
    /\ threads[0].phase = "parser"
    /\ threads' = [threads EXCEPT ![0] = [@ EXCEPT !.phase = "parsed",
                                                   !.parser = program(threads[0].parser)]]
    /\ UNCHANGED <<symbol_table, locals, last>>

CursorNext == MakeParser \/ ParseText

CursorSpec == CursorInit /\ [][CursorNext]_vars

(* The AST of the expression e, parsed as a statement of its own.         *)
AstOf(e) == parse(e \o <<";">>).node[2][1]

WithTail(node, tail) == IF tail = <<>> THEN node ELSE <<"+", node, <<"number", 1>>>>

ParsedAs(ps, stmt) == ~Failed(ps) /\ ps.node = <<"program", << stmt >> >>

(* C24: after every restore of a parser checkpoint the cursor (lexer      *)
(* offset, line counter, current character, current token) equals the     *)
(* cursor that was saved; ( e ) not followed by => parses to the AST of   *)
(* e, a [ i ] = v to an array_assign and a [ i ] to an array_access.      *)
C24_RestoreKeepsCursor ==
    threads[0].phase = "parsed" =>
        LET ps == threads[0].parser
            src == threads[0].src
        IN /\ \A k \in 1..Len(ps.restores) : ps.restores[k][2] = ps.restores[k][1]
           /\ \A e \in InnerExprs, m \in Breaks, n \in Breaks, tail \in Tails :
                 src = ParenText(e, m, n, tail) =>
                     ParsedAs(ps, WithTail(AstOf(e), tail))
           /\ \A i \in InnerExprs, v \in InnerExprs, m \in Breaks, n \in Breaks :
                 src = ArrayAssignText(i, v, m, n) =>
                     ParsedAs(ps, <<"array_assign", "a", AstOf(i), AstOf(v)>>)
           /\ \A i \in InnerExprs, m \in Breaks, n \in Breaks :
                 src = ArrayAccessText(i, m, n) =>
                     ParsedAs(ps, <<"array_access", <<"var", "a">>, AstOf(i)>>)

(* a [ x + 1 ] = 1 ; with a line break before the bracket and one before  *)
(* its closing: two peeks and the look-ahead, which read on to line 3,    *)
(* have been restored to the cursor saved on line 1.                      *)
C24_Witness ==
    /\ threads[0].phase = "parsed"
    /\ threads[0].src = ArrayAssignText(<<"x", "+", "1">>, <<"1">>, 1, 1)
    /\ Len(threads[0].parser.restores) = 3
    /\ threads[0].parser.restores[3][1][2] = 1
    /\ threads[0].parser.lineno = 3
    /\ threads[0].parser.node =
          <<"program", << <<"array_assign", "a", <<"+", <<"var", "x">>, <<"number", 1>>>>,
                            <<"number", 1>>>> >> >>

(* ------------------------------ C25 ----------------------------------- *)

SimpleKinds == {"declare", "assign", "print", "var"}

(* C25: a thread starts with a copy of its spawner's dict; a statement of *)
(* the thread leaves the entries of the names it does not declare or      *)
(* assign as they were copied; and the merge writes the thread's entry    *)
(* over the global entry of every name of the thread's dict that is a key *)
(* of the global dict when looked up, a name the block never declares or  *)
(* assigns included.                                                      *)
C25_MergeOverwritesSnapshotNames ==
    [][\A u \in Units :
          last'.unit = u =>
              LET thr == threads[u]
              IN /\ (thr.phase = "start" /\ thr.src[1] = "live"
                        /\ threads'[u].phase # "done") =>
                        locals'[u] = locals[thr.src[2]]
                 /\ (thr.phase = "run" /\ threads'[u].phase \in {"run", "merge"}
                        /\ thr.body[thr.pc][1] \in SimpleKinds) =>
                        \A k \in Keys(locals[u]) \ WrittenNames(thr.body[thr.pc]) :
                            Has(locals'[u], k) /\ Get(locals'[u], k) = Get(locals[u], k)
                 /\ (thr.phase = "merge" /\ threads'[u].phase = "merge") =>
                        locals'[u] = locals[u]
                 /\ (thr.phase = "merge" /\ ~thr.mchk
                        /\ Has(symbol_table, locals[u][thr.mi][1])) =>
                        /\ threads'[u].phase = "merge"
                        /\ threads'[u].mchk
                        /\ threads'[u].mi = thr.mi
                 /\ (thr.phase = "merge" /\ thr.mchk) =>
                        /\ Has(symbol_table', locals[u][thr.mi][1])
                        /\ Get(symbol_table', locals[u][thr.mi][1]) = locals[u][thr.mi][2]]_vars

(* let x = 1; parallel { print(x); } x = 42;  The thread copied x as      *)
(* (1, False), the main thread then assigned 42 to x, and the thread's    *)
(* merge has just put (1, False) under x in the global dict.              *)
C25_Witness ==
    /\ threads[0].src = LostUpdateText(<<"print", "(", "x", ")", ";">>)
    /\ threads[0].pc = 4
    /\ last.unit \in Units
    /\ "x" \in last.changed
    /\ Get(locals[0], "x") = IntV(42)
    /\ Get(symbol_table, "x") = MkTuple(IntV(1), FALSE)

(* ------------------------------ C26 ----------------------------------- *)

(* Thread t is about to run a statement of the given kind, and this step  *)
(* is that.                                                               *)
Runs(t, kind) ==
    /\ threads[t].phase = "run"
    /\ threads[t].pc <= Len(threads[t].body)
    /\ threads[t].body[threads[t].pc][1] = kind
    /\ last'.unit = t

HoldsClosure(obj) == IsTuple(obj) /\ obj[2][1] = "closure"

(* C26: a Declare that succeeds puts the bare value under the name in the *)
(* global dict and the pair (value, is_const) in the local dict; a merge  *)
(* write of an item that is such a pair puts the pair in the global dict; *)
(* and a call f(..) by the main thread, when f is in no function_table    *)
(* and both dicts hold a pair with a closure under f, raises the          *)
(* undefined-function error, whereas a read of f gives the closure (and   *)
(* while the global dict still holds the bare closure, the call is made). *)
C26_MergedPairIsNotCallable ==
    [][/\ \A t \in Threads :
             (Runs(t, "declare") /\ threads'[t].phase # "error") =>
                 LET stmt == threads[t].body[threads[t].pc]
                     val == Result(t, stmt).val
                 IN /\ Get(symbol_table', stmt[2]) = val
                    /\ ~IsTuple(val)
                    /\ threads'[t].phase \in {"run", "merge"} =>
                          Get(locals'[t], stmt[2]) = MkTuple(val, stmt[4])
       /\ \A u \in Units :
             (threads[u].phase = "merge" /\ threads[u].mchk /\ last'.unit = u
                 /\ IsTuple(locals[u][threads[u].mi][2])) =>
                 IsTuple(Get(symbol_table', locals[u][threads[u].mi][1]))
       /\ (Runs(0, "func_call") /\ threads[0].body[threads[0].pc][2] = "f"
              /\ Has(locals[0], "f") /\ HoldsClosure(Get(locals[0], "f"))
              /\ Has(symbol_table, "f")) =>
             IF IsTuple(Get(symbol_table, "f"))
             THEN /\ threads'[0].phase = "error"
                  /\ last'.out = << <<"Error", Exc("UndefinedFunction")>> >>
                  /\ Evaluate(<<"var", "f">>, Fresh(0)).val = Get(locals[0], "f")[2]
                  /\ Evaluate(<<"var", "f">>, [Fresh(0) EXCEPT !.loc = EmptyDict]).val =
                        Get(locals[0], "f")[2]
             ELSE /\ threads'[0].phase = "run"
                  /\ last'.out = <<>>]_vars

(* let f = (a) => a; parallel { print(0); } f(1);  The thread has merged, *)
(* the global dict holds (closure, False) under f, and the call f(1) of   *)
(* the main thread has just failed.                                       *)
C26_Witness ==
    /\ threads[0].src = ClosureText(<<"print", "(", "0", ")", ";">>, CallF)
    /\ threads[0].phase = "error"
    /\ last.unit = 0
    /\ last.out = << <<"Error", Exc("UndefinedFunction")>> >>
    /\ HoldsClosure(Get(symbol_table, "f"))
    /\ \A u \in Units : threads[u].phase \in {"idle", "done"}

(* ------------------------------ C27 ----------------------------------- *)

(* The state of the main thread after this step.                          *)
After == [Fresh(0) EXCEPT !.loc = locals'[0], !.glob = symbol_table']

CalledName == threads[0].body[threads[0].pc][2]

(* C27: a call of a function of function_table by the main thread leaves  *)
(* the main thread's dict as it was, whatever the function declares or    *)
(* assigns.  After setx(), whose body is x = 42, the global dict holds 42 *)
(* under x; a read of x by the caller gives the value the caller's dict   *)
(* held before the call if it held one, and 42 otherwise; a read of x in  *)
(* another call (getx) or with a fresh dict (a later line of the REPL)    *)
(* gives 42.  After lety(), whose body is let y = 7, the global dict      *)
(* holds 7 under y and the caller's dict holds no y.                      *)
C27_CalleeLeavesCallerDict ==
    [][(Runs(0, "func_call") /\ CalledName \in DOMAIN function_table) =>
          /\ locals'[0] = locals[0]
          /\ (CalledName = "setx" /\ threads'[0].phase = "run") =>
                /\ Get(symbol_table', "x") = IntV(42)
                /\ Evaluate(<<"var", "x">>, After).val =
                      IF Has(locals[0], "x") THEN Unwrap(Get(locals[0], "x")) ELSE IntV(42)
                /\ Evaluate(<<"func_call", "getx", <<>>>>, After).val = IntV(42)
                /\ Evaluate(<<"var", "x">>, [After EXCEPT !.loc = EmptyDict]).val = IntV(42)
          /\ (CalledName = "lety" /\ threads'[0].phase = "run") =>
                /\ Get(symbol_table', "y") = IntV(7)
                /\ ~Has(locals'[0], "y")]_vars

(* def setx() ... let x = 1; setx(); print(x); ...: print(x) has just     *)
(* printed 1 while the global dict holds 42 under x.                      *)
C27_Witness ==
    /\ threads[0].src = SetxText(<<"let", "x", "=", "1", ";">>)
    /\ threads[0].pc = 6
    /\ last.out = << IntV(1) >>
    /\ Get(locals[0], "x") = MkTuple(IntV(1), FALSE)
    /\ Get(symbol_table, "x") = IntV(42)

(* ------------------------------ C28 ----------------------------------- *)

(* This step is the main thread running the last statement of its text.   *)
RunsLast == threads[0].phase = "run" /\ threads[0].pc = Len(threads[0].body) /\ last'.unit = 0

Redeclared ==
    /\ threads'[0].phase = "error"
    /\ last'.out = << <<"Error", Exc("Redeclaration")>> >>

(* C28: a while, for or repeat whose body holds let q = 1 raises the      *)
(* redeclaration error in its second iteration, with q bound by the       *)
(* first, unless the body also takes q out again by q = null or by        *)
(* delete(q); with fewer than two iterations nothing is raised.  The      *)
(* second call of lety(), whose body is let y = 7, raises the             *)
(* redeclaration error unless y = null or delete(y) came in between.      *)
C28_SecondDeclareRaises ==
    [][RunsLast =>
          /\ \A c \in 0..MaxCount : \A rem \in Removals("q") :
                threads[0].src \in {RepeatDeclText(c, rem), WhileDeclText(c, rem),
                                    ForDeclText(c, rem)} =>
                    IF c >= 2 /\ rem = <<>>
                    THEN /\ Redeclared
                         /\ Get(symbol_table', "q") = IntV(1)
                         /\ Get(locals'[0], "q") = MkTuple(IntV(1), FALSE)
                    ELSE /\ threads'[0].phase = "run"
                         /\ last'.out = <<>>
                         /\ Has(symbol_table', "q") = (c >= 1 /\ rem = <<>>)
          /\ \A rem \in Removals("y") :
                threads[0].src = LetyTwiceText(rem) =>
                    IF rem = <<>>
                    THEN Redeclared
                    ELSE /\ threads'[0].phase = "run"
                         /\ Get(symbol_table', "y") = IntV(7)]_vars

(* repeat 2 times { let q = 1; } has just ended in the redeclaration      *)
(* error, q bound by the first iteration.                                 *)
C28_Witness ==
    /\ threads[0].src = RepeatDeclText(2, <<>>)
    /\ threads[0].phase = "error"
    /\ last.out = << <<"Error", Exc("Redeclaration")>> >>
    /\ Get(locals[0], "q") = MkTuple(IntV(1), FALSE)
    /\ Get(symbol_table, "q") = IntV(1)

(* ------------------------------ C29 ----------------------------------- *)

(* C29: repeat n times runs its body as many times as n held when the     *)
(* repeat began, whatever the body assigns to n: with n = c at the start  *)
(* and a body that sets n to v and prints 1, 1 is printed c times and n   *)
(* ends as v (as c when c is 0); with a body that prints n and adds 1 to  *)
(* it, c, c + 1, ..., 2c - 1 are printed and n ends as 2c.                *)
C29_CountEvaluatedOnce ==
    [][RunsLast =>
          \A c \in 0..MaxCount :
              /\ \A v \in 0..MaxCount :
                    threads[0].src = CountWriteText(c, v) =>
                        /\ threads'[0].phase = "run"
                        /\ last'.out = [i \in 1..c |-> IntV(1)]
                        /\ Get(symbol_table', "n") = IntV(IF c = 0 THEN c ELSE v)
              /\ threads[0].src = CountGrowText(c) =>
                    /\ threads'[0].phase = "run"
                    /\ last'.out = [i \in 1..c |-> IntV(c + i - 1)]
                    /\ Get(symbol_table', "n") = IntV(2 * c)]_vars

(* let n = 2; repeat n times { n = 0; print(1); } has printed 1 twice and *)
(* left n as 0.                                                           *)
C29_Witness ==
    /\ threads[0].src = CountWriteText(2, 0)
    /\ threads[0].phase = "run"
    /\ threads[0].pc = 3
    /\ last.out = << IntV(1), IntV(1) >>
    /\ Get(symbol_table, "n") = IntV(0)

(* ------------------------------ C30 ----------------------------------- *)

(* left and right, left or right of Python, both operands evaluated.      *)
Logical(op, left, right) ==
    IF op = "and" THEN (IF Truthy(left) THEN right ELSE left)
    ELSE (IF Truthy(left) THEN left ELSE right)

Raised(kind) ==
    /\ threads'[0].phase = "error"
    /\ last'.out = << <<"Error", Exc(kind)>> >>

(* C30: and / or evaluate the left operand, then the right operand, then  *)
(* combine: with setx() as the right operand x is 42 in the global dict   *)
(* afterwards whatever the left operand is; a right operand that raises   *)
(* makes the expression raise whatever the left operand is; when both     *)
(* operands raise, the left operand's exception is the one raised.        *)
C30_BothOperandsEvaluated ==
    [][\A op \in LogicalLexemes :
          /\ \A l \in LeftOperands :
                /\ (Runs(0, "print") /\ threads[0].pc = 2
                       /\ threads[0].src = SideEffectText(l[1], op)) =>
                       /\ threads'[0].phase = "run"
                       /\ last'.out = << Logical(op, l[2], IntV(42)) >>
                       /\ Has(symbol_table', "x")
                       /\ Get(symbol_table', "x") = IntV(42)
                /\ \A r \in RaisingOperands :
                       (RunsLast /\ threads[0].src = LogicalText(l[1], op, r[1])) =>
                           Raised(r[2])
                /\ \A r \in LeftOperands :
                       (RunsLast /\ threads[0].src = LogicalText(l[1], op, << r[1] >>)) =>
                           /\ threads'[0].phase = "run"
                           /\ last'.out = << Logical(op, l[2], r[2]) >>
          /\ (RunsLast /\ threads[0].src = LeftFirstText(op)) =>
                Raised("ZeroDivisionError")]_vars

(* def setx() { x = 42; } print(false and setx()); ...: False has been    *)
(* printed and x is 42 in the global dict.                                *)
C30_Witness ==
    /\ threads[0].src = SideEffectText("false", "and")
    /\ threads[0].pc = 3
    /\ last.out = << BoolV(FALSE) >>
    /\ Get(symbol_table, "x") = IntV(42)

====
